---- MODULE Spec2Model ----
(***************************************************************************)
(* Verification model of the pattern-creator repository: the five          *)
(* versions of the fibrosis pattern generator (pattern-creator.py,         *)
(* try1.py, try2.py, try3.py, try5.py), their vector (PDF) and raster      *)
(* (preview) backends, and the GUI handlers that drive them.                *)
(*                                                                         *)
(* Part 1 (Spec): the GUI session and the process-global random source.    *)
(***************************************************************************)
EXTENDS Integers, Naturals, Sequences, FiniteSets, TLC

VARIABLES
  ver,        \* which program of the repository is running
  params,     \* the widget values _current_params reads
  rng,        \* state of the process-global generator of module random
  last_seed,  \* self.last_seed
  preview,    \* <<>> or <<primitive list of the preview image displayed>>
  doc,        \* <<>> or <<primitive list of the last document written>>
  lastCall,   \* the synthesis call made last: its arguments and result
  memo,       \* the first seeded synthesis call of a script (reference)
  zoom_index, \* self.zoom_index of the GUI of try1.py
  zoom_level, \* self.zoom_level of the GUI of try1.py
  call,       \* arguments of the synthesis call being executed (Part 2)
  todo,       \* the drawing calls it has still to make
  gs,         \* canvas graphics state: fill colour, clip paths, transforms
  gstack,     \* the states pushed by saveState
  marks,      \* what has been painted so far, on the page or on an image
  images,     \* the PIL images created so far and their background
  pastes,     \* the paste operations made so far
  outcome     \* "idle", "running", "returned" or the exception raised

sessVars == <<ver, params, rng, last_seed, preview, doc, lastCall, memo,
             zoom_index, zoom_level>>

callVars == <<call, todo, gs, gstack, marks, images, pastes, outcome>>

vars == <<ver, params, rng, last_seed, preview, doc, lastCall, memo,
         zoom_index, zoom_level,
         call, todo, gs, gstack, marks, images, pastes, outcome>>

\* self.zoom_levels
zoom_levels == <<<<1, 2>>, <<3, 4>>, <<1, 1>>, <<3, 2>>, <<2, 1>>, <<3, 1>>, <<4, 1>>>>

\* self.zoom_level = 1.0; self.zoom_index = 2 in __init__
ZoomInit == zoom_index = 2 /\ zoom_level = <<1, 1>>

\* zoom_reset: self.zoom_index = 2; self.zoom_level = 1.0
zoom_reset_to == zoom_index' = 2 /\ zoom_level' = <<1, 1>>

\* no synthesis call is being stepped through (Part 1)
CallIdle ==
  /\ call = <<>> /\ todo = <<>> /\ gs = <<>> /\ gstack = <<>>
  /\ marks = <<>> /\ images = <<>> /\ pastes = <<>> /\ outcome = "idle"

----------------------------------------------------------------------------
(* Bounds *)

\* number of states of the modelled generator
RngMod == 8
\* largest number of primitives (rectangles, spots, islands) of one call
MaxPrims == 2
\* seeds 0..MaxApiSeed are passed by direct callers of the two functions
MaxApiSeed == 1
\* most values a script draws from the global source between two calls
MaxCallerDraws == 1

----------------------------------------------------------------------------
(* The global random source *)

\* self.last_seed = None
NoSeed == -1

RngStates == 0 .. (RngMod - 1)

Versions == {"pattern-creator", "try1", "try2", "try3", "try5"}
Backends == {"vector", "raster"}

\* random.seed(seed): the state becomes a function of the seed alone
SeedState(seed) == (3 * seed + 1) % RngMod

\* one call of random.uniform / random.randint advances the state
RngStep(st) == (5 * st + 3) % RngMod

\* the raw value a draw returns from state st
RngOut(st) == st

RECURSIVE Advance(_, _)
Advance(st, k) == IF k = 0 THEN st ELSE Advance(RngStep(st), k - 1)

\* random.randint(0, 10**9) as used for last_seed
RandInt(st) == RngOut(st)

----------------------------------------------------------------------------
(* Order in which each generator consumes the random stream for ONE        *)
(* primitive: the n-th name is the quantity the n-th draw is assigned to.  *)

\* try1.py add_diffuse: spot centre
add_diffuse_try1 == <<"angle", "r">>
\* try1.py add_diffuse_preview
add_diffuse_preview_try1 == <<"angle", "r">>
\* try1.py add_patchy: rectangle centre, size, rotation
add_patchy_try1 == <<"angle", "r_factor", "size_factor", "rotation_angle">>
\* try1.py add_patchy_preview
add_patchy_preview_try1 == <<"angle", "r_factor", "size_factor", "rotation_angle">>
\* try1.py add_compact, irregular branch: amplitudes then phases
add_compact_try1 ==
  <<"amp1", "amp2", "amp3", "amp4", "amp5", "ph1", "ph2", "ph3", "ph4", "ph5">>
\* try1.py add_compact_preview, irregular branch
add_compact_preview_try1 ==
  <<"amp1", "amp2", "amp3", "amp4", "amp5", "ph1", "ph2", "ph3", "ph4", "ph5">>

\* try2.py add_diffuse: rotation is drawn BEFORE the scatter
add_diffuse_try2 == <<"angle", "r_factor", "rect_angle", "scatter_x", "scatter_y">>
\* try2.py add_diffuse_preview: rotation is drawn AFTER the scatter
add_diffuse_preview_try2 == <<"angle", "r_factor", "scatter_x", "scatter_y", "rect_angle">>

\* try3.py add_diffuse
add_diffuse_try3 == <<"angle", "r_factor", "rect_angle", "scatter_x", "scatter_y">>
\* try3.py add_diffuse_preview
add_diffuse_preview_try3 == <<"angle", "r_factor", "scatter_x", "scatter_y", "rect_angle">>
\* try3.py add_patchy: centre, size, 4 amplitudes, 4 phases
add_patchy_try3 ==
  <<"angle", "r_factor", "size_variation",
    "amp1", "amp2", "amp3", "amp4", "ph1", "ph2", "ph3", "ph4">>
\* try3.py add_patchy_preview
add_patchy_preview_try3 ==
  <<"angle", "r_factor", "size_variation",
    "amp1", "amp2", "amp3", "amp4", "ph1", "ph2", "ph3", "ph4">>

\* try5.py generate_pattern, Diffuse branch
diffuse_generate_try5 == <<"angle", "r_factor", "rect_angle", "scatter_x", "scatter_y">>
\* try5.py render_pattern_image, Diffuse branch
diffuse_render_try5 == <<"angle", "r_factor", "rect_angle", "scatter_x", "scatter_y">>
\* try5.py add_patchy
add_patchy_try5 ==
  <<"angle", "r_factor", "size_variation",
    "amp1", "amp2", "amp3", "amp4", "ph1", "ph2", "ph3", "ph4">>
\* try5.py add_patchy_preview
add_patchy_preview_try5 ==
  <<"angle", "r_factor", "size_variation",
    "amp1", "amp2", "amp3", "amp4", "ph1", "ph2", "ph3", "ph4">>
\* try5.py draw_irregular_circle, irregular branch
draw_irregular_circle ==
  <<"amp1", "amp2", "amp3", "amp4", "amp5", "ph1", "ph2", "ph3", "ph4", "ph5">>
\* try5.py draw_irregular_circle_preview, irregular branch
draw_irregular_circle_preview ==
  <<"amp1", "amp2", "amp3", "amp4", "amp5", "ph1", "ph2", "ph3", "ph4", "ph5">>

\* the pattern types each version's generate/render function dispatches on
Families(v) ==
  CASE v = "pattern-creator" -> {"Interstitial"}
    [] v = "try1" -> {"Interstitial", "Diffuse", "Patchy", "Compact"}
    [] v = "try2" -> {"Interstitial", "Diffuse"}
    [] v = "try3" -> {"Interstitial", "Diffuse", "Patchy"}
    [] v = "try5" -> {"Interstitial", "Diffuse", "Patchy", "Compact"}

\* Dispatch of (version, backend, pattern type) to the generator it calls.
\* Interstitial and the regular Compact disc draw nothing from the stream.
DrawOrder(v, b, p) ==
  LET f == p.pattern_type
      vec == (b = "vector")
  IN CASE f = "Diffuse" /\ v = "try1" ->
            IF vec THEN add_diffuse_try1 ELSE add_diffuse_preview_try1
       [] f = "Diffuse" /\ v = "try2" ->
            IF vec THEN add_diffuse_try2 ELSE add_diffuse_preview_try2
       [] f = "Diffuse" /\ v = "try3" ->
            IF vec THEN add_diffuse_try3 ELSE add_diffuse_preview_try3
       [] f = "Diffuse" /\ v = "try5" ->
            IF vec THEN diffuse_generate_try5 ELSE diffuse_render_try5
       [] f = "Patchy" /\ v = "try1" ->
            IF vec THEN add_patchy_try1 ELSE add_patchy_preview_try1
       [] f = "Patchy" /\ v = "try3" ->
            IF vec THEN add_patchy_try3 ELSE add_patchy_preview_try3
       [] f = "Patchy" /\ v = "try5" ->
            IF vec THEN add_patchy_try5 ELSE add_patchy_preview_try5
       [] f = "Compact" /\ v = "try1" /\ p.irregular ->
            IF vec THEN add_compact_try1 ELSE add_compact_preview_try1
       [] f = "Compact" /\ v = "try5" /\ p.irregular ->
            IF vec THEN draw_irregular_circle ELSE draw_irregular_circle_preview
       [] OTHER -> <<>>

\* number of randomly placed primitives the call generates
NumPrims(v, p) ==
  CASE p.pattern_type \in {"Diffuse", "Patchy"} -> p.count
    [] p.pattern_type = "Compact" -> IF v = "try5" /\ p.split THEN 2 ELSE 1
    [] OTHER -> 0

\* position (1-based) of quantity q in a draw order
IndexOf(order, q) == CHOOSE i \in DOMAIN order : order[i] = q

\* one primitive: every quantity gets the raw value of its draw
Primitive(order, st) ==
  [q \in {order[i] : i \in DOMAIN order} |->
     RngOut(Advance(st, IndexOf(order, q) - 1))]

\* the ordered primitive list of n primitives generated from state st
PrimList(order, st, n) ==
  [k \in 1 .. n |-> Primitive(order, Advance(st, (k - 1) * Len(order)))]

\* a family generator run from generator state st: result and final state
Synthesize(v, b, p, st) ==
  LET order == DrawOrder(v, b, p)
      n == NumPrims(v, p)
  IN [prims |-> PrimList(order, st, n),
      rng   |-> Advance(st, n * Len(order))]

\* generate_pattern that forgets random.seed(seed)
generate_pattern_unseeded(v, seed, p, st) == Synthesize(v, "vector", p, st)

\* generate_pattern / generate_pdf_pattern(filename, ..., seed=seed):
\* every version reseeds the GLOBAL generator when a seed is given
generate_pattern(v, seed, p, st) ==
  Synthesize(v, "vector", p, IF seed # NoSeed THEN SeedState(seed) ELSE st)

\* whether render_pattern_image of the version has a seed parameter; in
\* try1, try2 and try3 a seed keyword lands in **kwargs and is never read
RenderReadsSeed(v) == v \in {"pattern-creator", "try5"}

\* render_pattern_image(size_px, ..., seed=seed)
render_pattern_image(v, seed, p, st) ==
  Synthesize(v, "raster", p,
             IF seed # NoSeed /\ RenderReadsSeed(v) THEN SeedState(seed) ELSE st)

----------------------------------------------------------------------------
(* The GUI session (Spec) and direct callers of the two functions (ApiSpec) *)

ApiSeeds == 0 .. MaxApiSeed

\* the widget values that decide which generator runs and how often it draws
ParamSpace(v) ==
  {[pattern_type |-> "Interstitial", count |-> 0,
    irregular |-> FALSE, split |-> FALSE]}
  \cup
  {[pattern_type |-> f, count |-> n, irregular |-> FALSE, split |-> FALSE] :
     f \in Families(v) \cap {"Diffuse", "Patchy"}, n \in 0 .. MaxPrims}
  \cup
  {[pattern_type |-> f, count |-> 0, irregular |-> i, split |-> sp] :
     f \in Families(v) \cap {"Compact"}, i \in BOOLEAN,
     sp \in IF v = "try5" THEN BOOLEAN ELSE {FALSE}}

NoCall ==
  [handler |-> "none", backend |-> "none", seed |-> NoSeed,
   rngBefore |-> 0, prims |-> <<>>]

\* the record of one synthesis call: who made it, its backend, the seed
\* argument, the generator state on entry and the primitive list produced
CallRecord(h, b, seed, before, res) ==
  [handler |-> h, backend |-> b, seed |-> seed,
   rngBefore |-> before, prims |-> res.prims]

\* the seed argument on_preview hands to render_pattern_image
\* (try2, try5: none; pattern-creator, try1: seed=self.last_seed;
\*  try3: none, update_preview calls random.seed itself)
PreviewSeedArg(v, seed) ==
  IF v \in {"pattern-creator", "try1"} THEN seed ELSE NoSeed

\* on_preview / update_preview: self.last_seed = random.randint(0, 10**9),
\* then the preview image is rendered
AfterPreview(v, p, st) ==
  LET seed   == RandInt(st)
      st1    == RngStep(st)
      before == IF v = "try3" THEN SeedState(seed) ELSE st1
      arg    == PreviewSeedArg(v, seed)
      res    == render_pattern_image(v, arg, p, before)
      start  == IF arg # NoSeed /\ RenderReadsSeed(v) THEN SeedState(arg) ELSE before
  IN [rng |-> res.rng,
      last_seed |-> seed,
      preview |-> <<[prims |-> res.prims, start |-> start]>>,
      lastCall |-> CallRecord("on_preview", "raster", arg, before, res)]

\* try2, try3 and try5 call on_preview / update_preview from __init__
ConstructorPreviews(v) == v \in {"try2", "try3", "try5"}

Init ==
  \E v \in Versions, st \in RngStates :
    \E p \in ParamSpace(v) :
      /\ ver = v
      /\ params = p
      /\ doc = <<>>
      /\ memo = NoCall
      /\ ZoomInit
      /\ CallIdle
      /\ IF ConstructorPreviews(v)
         THEN LET s == AfterPreview(v, p, st)
              IN /\ rng = s.rng
                 /\ last_seed = s.last_seed
                 /\ preview = s.preview
                 /\ lastCall = s.lastCall
         ELSE /\ rng = st
              /\ last_seed = NoSeed
              /\ preview = <<>>
              /\ lastCall = NoCall

on_preview ==
  LET s == AfterPreview(ver, params, rng)
  IN /\ rng' = s.rng
     /\ last_seed' = s.last_seed
     /\ preview' = s.preview
     /\ lastCall' = s.lastCall
     /\ IF ver = "try1" THEN zoom_reset_to ELSE UNCHANGED <<zoom_index, zoom_level>>
     /\ UNCHANGED <<ver, params, doc, memo, callVars>>

\* on_generate / save_pattern with a file name chosen in the dialog.
\* pattern-creator and try1 draw a seed first when there is none yet.
on_generate ==
  LET fresh  == ver \in {"pattern-creator", "try1"} /\ last_seed = NoSeed
      seed   == IF fresh THEN RandInt(rng) ELSE last_seed
      before == IF fresh THEN RngStep(rng) ELSE rng
      res    == generate_pattern(ver, seed, params, before)
      start  == IF seed # NoSeed THEN SeedState(seed) ELSE before
  IN /\ rng' = res.rng
     /\ last_seed' = seed
     /\ doc' = <<[prims |-> res.prims, start |-> start]>>
     /\ lastCall' = CallRecord("on_generate", "vector", seed, before, res)
     /\ UNCHANGED <<ver, params, preview, memo, zoom_index, zoom_level, callVars>>

\* a zoom handler that steps the index and keeps the old level
zoom_in_to_stale_level(i, l) ==
  IF i < Len(zoom_levels) - 1 THEN <<i + 1, l>> ELSE <<i, l>>

\* zoom_in of try1.py on index i and level l: one level up unless at the
\* highest, the level read from zoom_levels at the new index
zoom_in_to(i, l) ==
  IF i < Len(zoom_levels) - 1 THEN <<i + 1, zoom_levels[i + 2]>> ELSE <<i, l>>

\* zoom_out of try1.py: one level down unless at the lowest
zoom_out_to(i, l) ==
  IF i > 0 THEN <<i - 1, zoom_levels[i]>> ELSE <<i, l>>

\* the "+" button
zoom_in ==
  /\ ver = "try1"
  /\ zoom_index' = zoom_in_to(zoom_index, zoom_level)[1]
  /\ zoom_level' = zoom_in_to(zoom_index, zoom_level)[2]
  /\ UNCHANGED <<ver, params, rng, last_seed, preview, doc, lastCall, memo, callVars>>

\* the "-" button
zoom_out ==
  /\ ver = "try1"
  /\ zoom_index' = zoom_out_to(zoom_index, zoom_level)[1]
  /\ zoom_level' = zoom_out_to(zoom_index, zoom_level)[2]
  /\ UNCHANGED <<ver, params, rng, last_seed, preview, doc, lastCall, memo, callVars>>

\* the "Reset" button
zoom_reset ==
  /\ ver = "try1"
  /\ zoom_reset_to
  /\ UNCHANGED <<ver, params, rng, last_seed, preview, doc, lastCall, memo, callVars>>

\* <MouseWheel>, <Button-4>, <Button-5>: nothing without a preview image;
\* scroll up is zoom_in, scroll down is zoom_out, an event that is neither
\* (delta 0) does nothing
on_mouse_wheel ==
  /\ ver = "try1"
  /\ \E event \in {"up", "down", "none"} :
       LET to == IF preview = <<>> \/ event = "none" THEN <<zoom_index, zoom_level>>
                 ELSE IF event = "up" THEN zoom_in_to(zoom_index, zoom_level)
                 ELSE zoom_out_to(zoom_index, zoom_level)
       IN zoom_index' = to[1] /\ zoom_level' = to[2]
  /\ UNCHANGED <<ver, params, rng, last_seed, preview, doc, lastCall, memo, callVars>>

Next ==
  \/ on_preview
  \/ on_generate
  \/ zoom_in
  \/ zoom_out
  \/ zoom_reset
  \/ on_mouse_wheel

Spec == Init /\ [][Next]_vars

\* Direct callers: a script that calls the two functions, with or without
\* a seed, after drawing k values from the global source itself since the
\* previous call.  memo keeps the first seeded call as the reference the
\* later ones are compared with.
ApiInit ==
  \E v \in Versions, st \in RngStates :
    \E p \in ParamSpace(v) :
      /\ ver = v
      /\ params = p
      /\ rng = st
      /\ last_seed = NoSeed
      /\ preview = <<>>
      /\ doc = <<>>
      /\ lastCall = NoCall
      /\ memo = NoCall
      /\ ZoomInit
      /\ CallIdle

Remember(m, c) == IF m = NoCall /\ c.seed # NoSeed THEN c ELSE m

call_generate_pattern ==
  \E seed \in ApiSeeds \cup {NoSeed}, k \in 0 .. MaxCallerDraws :
    LET before == Advance(rng, k)
        res    == generate_pattern(ver, seed, params, before)
        c      == CallRecord("call", "vector", seed, before, res)
    IN /\ rng' = res.rng
       /\ lastCall' = c
       /\ memo' = Remember(memo, c)
       /\ UNCHANGED <<ver, params, last_seed, preview, doc, zoom_index, zoom_level, callVars>>

call_render_pattern_image ==
  \E seed \in ApiSeeds \cup {NoSeed}, k \in 0 .. MaxCallerDraws :
    LET before == Advance(rng, k)
        res    == render_pattern_image(ver, seed, params, before)
        c      == CallRecord("call", "raster", seed, before, res)
    IN /\ rng' = res.rng
       /\ lastCall' = c
       /\ memo' = Remember(memo, c)
       /\ UNCHANGED <<ver, params, last_seed, preview, doc, zoom_index, zoom_level, callVars>>

ApiNext ==
  \/ call_generate_pattern
  \/ call_render_pattern_image

ApiSpec == ApiInit /\ [][ApiNext]_vars

----------------------------------------------------------------------------
(* Claims about the random stream *)

\* the call draws at least one value of the stream
RandomFamily(v, p) ==
  NumPrims(v, p) > 0 /\ Len(DrawOrder(v, "vector", p)) > 0

\* C1: in try5.py two calls of generate_pattern, or two calls of
\* render_pattern_image, with the same seed (not None) and the same
\* parameters produce the same ordered primitive list, whatever the state of
\* the global generator was before each of them.
C1_Determinism ==
  (/\ ver = "try5"
   /\ memo # NoCall
   /\ lastCall.backend = memo.backend
   /\ lastCall.seed = memo.seed)
  => lastCall.prims = memo.prims

\* C1 witness: a second seeded call of a random family that started from
\* another state of the global generator than the first one
C1_Witness ==
  /\ ver = "try5"
  /\ memo # NoCall
  /\ lastCall.backend = memo.backend
  /\ lastCall.seed = memo.seed
  /\ lastCall.rngBefore # memo.rngBefore
  /\ RandomFamily(ver, params)

\* C2: in try1.py, try2.py and try5.py, after on_preview followed by
\* on_generate with unchanged parameters the document is generated from the
\* stream start that produced the displayed preview, so the exported
\* primitives are the previewed ones.
C2_PreviewThenExport ==
  (/\ ver \in {"try1", "try2", "try5"}
   /\ lastCall.handler = "on_generate"
   /\ preview # <<>>)
  => /\ doc[1].prims = preview[1].prims
     /\ RandomFamily(ver, params) => doc[1].start = preview[1].start

\* C3: in try2.py, try3.py and try5.py the vector and the raster Diffuse
\* generator started from the same point of the stream give the k-th
\* rectangle the same draws for centre, rotation and scatter.
C3_SameStreamOrder ==
  (/\ ver \in {"try2", "try3", "try5"}
   /\ params.pattern_type = "Diffuse"
   /\ preview # <<>>
   /\ doc # <<>>
   /\ preview[1].start = doc[1].start)
  => doc[1].prims = preview[1].prims

\* C4: a synthesis call leaves the process-global generator in the state it
\* had when the call was entered.
C4_GlobalGeneratorUntouched ==
  lastCall.handler # "none" => rng = lastCall.rngBefore

----------------------------------------------------------------------------
(* Part 2 (CallSpec): one synthesis call, executed drawing call by drawing *)
(* call.  Python floats are modelled by exact rationals <<n, d>> with      *)
(* d > 0 and gcd(n, d) = 1.                                                *)

Abs(n) == IF n < 0 THEN -n ELSE n

RECURSIVE GCD(_, _)
GCD(a, b) == IF b = 0 THEN a ELSE GCD(b, a % b)

\* the rational n / d in lowest terms (d # 0)
Rat(n, d) ==
  LET g == GCD(Abs(n), Abs(d))
      sg == IF d < 0 THEN -1 ELSE 1
  IN <<sg * (n \div g), sg * (d \div g)>>

RInt(n) == <<n, 1>>
RZero == <<0, 1>>
ROne == <<1, 1>>

RAdd(a, b) ==
  LET g == GCD(a[2], b[2])
  IN Rat(a[1] * (b[2] \div g) + b[1] * (a[2] \div g), (a[2] \div g) * b[2])
RNeg(a) == <<-a[1], a[2]>>
RSub(a, b) == RAdd(a, RNeg(b))
\* product, cancelling across before multiplying
RMul(a, b) ==
  LET g1 == GCD(Abs(a[1]), b[2])
      g2 == GCD(Abs(b[1]), a[2])
  IN <<(a[1] \div g1) * (b[1] \div g2), (a[2] \div g2) * (b[2] \div g1)>>
\* quotient a / b for b # 0
RDiv(a, b) == RMul(a, IF b[1] < 0 THEN <<-b[2], -b[1]>> ELSE <<b[2], b[1]>>)
RLt(a, b) ==
  LET g == GCD(a[2], b[2])
  IN a[1] * (b[2] \div g) < b[1] * (a[2] \div g)
RLe(a, b) == a = b \/ RLt(a, b)
RMin(a, b) == IF RLt(b, a) THEN b ELSE a
RMax(a, b) == IF RLt(a, b) THEN b ELSE a
RSq(a) == RMul(a, a)
RAbs(a) == <<Abs(a[1]), a[2]>>
\* int(x) for x >= 0, and math.ceil(x)
RFloor(a) == a[1] \div a[2]
RCeil(a) == -((-a[1]) \div a[2])

\* ISqrt(n): the integer k >= 0 with k*k <= n < (k+1)*(k+1), by bisection
RECURSIVE Bisect(_, _, _)
Bisect(n, lo, hi) ==
  IF hi - lo <= 1 THEN lo
  ELSE LET mid == (lo + hi) \div 2
       IN IF mid * mid <= n THEN Bisect(n, mid, hi) ELSE Bisect(n, lo, mid)
ISqrt(n) == IF n < 4 THEN (IF n = 0 THEN 0 ELSE 1) ELSE Bisect(n, 1, IF n > 46340 THEN 46341 ELSE n)

\* the rationals math.sqrt is computed on exactly: quotients of two squares
IsSquare(a) ==
  /\ a[1] >= 0
  /\ ISqrt(a[1]) * ISqrt(a[1]) = a[1]
  /\ ISqrt(a[2]) * ISqrt(a[2]) = a[2]
\* math.sqrt(a) for such a
RSqrt(a) == <<ISqrt(a[1]), ISqrt(a[2])>>

----------------------------------------------------------------------------
(* RegionModel and coverage: the head of generate_pattern and of           *)
(* render_pattern_image.  a is the record of the call's arguments.         *)

\* reportlab.lib.units.mm, points per millimetre: 72 / 25.4
mm == <<360, 127>>
\* math.pi as a rational
Pi == <<355, 113>>

\* a clamp that forgets the lower end: min(0.9, white_border_fraction)
ClampBorder_upper_only(b) == RMin(<<9, 10>>, b)

\* max(0.0, min(0.9, white_border_fraction))
ClampBorder(b) == RMax(RZero, RMin(<<9, 10>>, b))

\* radius_pt = circle_diameter_mm * mm / 2.0;  radius_px = size_px * 0.45
OuterRadius(a) ==
  IF a.backend = "vector"
  THEN RDiv(RMul(a.circle_diameter_mm, mm), RInt(2))
  ELSE RMul(RInt(a.size_px), <<9, 20>>)

\* centre of the drawing: page centre (dummy_size / 2) or size_px / 2
Centre(a) ==
  IF a.backend = "vector"
  THEN RDiv(RAdd(RMul(a.circle_diameter_mm, mm), RMul(RInt(4), mm)), RInt(2))
  ELSE RDiv(RInt(a.size_px), RInt(2))

\* pattern_radius = radius * (1.0 - max(0.0, min(0.9, white_border_fraction)))
PatternRadius(a) ==
  RMul(OuterRadius(a), RSub(ROne, ClampBorder(a.white_border_fraction)))

\* area_ratio = (pattern_radius / radius) ** 2
AreaRatio(a) == RSq(RDiv(PatternRadius(a), OuterRadius(a)))

\* an inner coverage that divides by the ratio of the radii, not of the areas
InnerCoverage_by_radius(a) ==
  RMin(<<99, 100>>, RDiv(a.coverage, RDiv(PatternRadius(a), OuterRadius(a))))

\* inner_coverage = min(0.99, coverage / area_ratio if area_ratio > 0 else 0)
InnerCoverage(a) ==
  RMin(<<99, 100>>,
       IF RLt(RZero, AreaRatio(a)) THEN RDiv(a.coverage, AreaRatio(a)) ELSE RZero)

\* PatternCreatorApp._update_coverage_info of try5.py: inner_coverage in
\* percent, min(99, total_coverage / area_ratio * 100) with area_ratio =
\* (1.0 - white_border) ** 2 and no clamp of the border, then
\* inner_coverage_fraction = inner_coverage / 100.0
inner_coverage_fraction(total_coverage, white_border) ==
  LET area_ratio == RSq(RSub(ROne, white_border))
      inner_coverage ==
        IF RLt(RZero, area_ratio)
        THEN RMin(RInt(99), RMul(RDiv(total_coverage, area_ratio), RInt(100)))
        ELSE RZero
  IN RDiv(inner_coverage, RInt(100))

\* the coverage handed to the family generator: pattern-creator.py passes
\* coverage itself, the later versions pass inner_coverage
FamilyCoverage(a) ==
  IF a.ver = "pattern-creator" THEN a.coverage ELSE InnerCoverage(a)

\* a length given in mm in the backend's own unit: the vector backend
\* multiplies by mm, the raster backend scales by the INNER diameter:
\* (x_mm / circle_diameter_mm) * (2 * pattern_radius_px)
ToUnits(a, x_mm) ==
  IF a.backend = "vector"
  THEN RMul(x_mm, mm)
  ELSE RMul(RDiv(x_mm, a.circle_diameter_mm), RMul(RInt(2), PatternRadius(a)))

\* the distance test math.sqrt(x ** 2 + y ** 2) <= R for R > 0, decided on
\* the quotients x / R and y / R so that no square root is taken
WithinDist(x, y, R) == RLe(RAdd(RSq(RDiv(x, R)), RSq(RDiv(y, R))), ROne)

\* math.cos and math.sin of the rotations used, in degrees
Cos(deg) == IF deg = 0 THEN ROne ELSE RZero
Sin(deg) == IF deg = 90 THEN ROne ELSE RZero

----------------------------------------------------------------------------
(* Drawing calls.  A synthesis call is the sequence of calls it makes on   *)
(* the reportlab canvas or on the PIL images; each call is a record        *)
(* [op, role, arg].  role names the statement of the program that issues   *)
(* the call: "background", "tissue", "outer", "inner", "ink", "mask".      *)

NoArg == [n |-> 0]
Ins(op, role, arg) == [op |-> op, role |-> role, arg |-> arg]

\* PIL fill values of mode "L" and reportlab colours, as colour names
Colour(fill) == IF fill = 0 THEN "black" ELSE "white"

\* reportlab canvas calls
setFillColor(role, colour) == Ins("setFillColor", role, [colour |-> colour])
saveState == Ins("saveState", "state", NoArg)
restoreState == Ins("restoreState", "state", NoArg)
translate(dx, dy) == Ins("translate", "state", [dx |-> dx, dy |-> dy])
rotate(deg) == Ins("rotate", "state", [deg |-> deg])
\* p = c.beginPath(); p.circle(cx, cy, r); c.clipPath(p, stroke=0, fill=0)
clipPath(role, cx, cy, r) == Ins("clipPath", role, [cx |-> cx, cy |-> cy, r |-> r])
\* c.rect(x, y, w, h, stroke=0, fill=1)
rect(role, x, y, w, h) ==
  Ins("rect", role, [kind |-> "rect", x |-> x, y |-> y, w |-> w, h |-> h])
\* c.circle(cx, cy, r, stroke=0, fill=1), the radius carried by its square
circle(role, cx, cy, r2) ==
  Ins("circle", role, [kind |-> "circle", cx |-> cx, cy |-> cy, r2 |-> r2])
\* c.drawPath(p, stroke=0, fill=1) of a closed polygon of n points around
\* (cx, cy) whose mean radius has square r2
drawPath(role, n, cx, cy, r2) ==
  Ins("drawPath", role, [kind |-> "path", n |-> n, cx |-> cx, cy |-> cy, r2 |-> r2])
showPage == Ins("showPage", "state", NoArg)
save == Ins("save", "state", NoArg)

\* PIL calls
Image_new(layer, fill) == Ins("Image.new", layer, [layer |-> layer, colour |-> Colour(fill)])
\* ImageDraw.Draw(layer).ellipse((cx - r, cy - r, cx + r, cy + r), fill=fill)
ellipse(role, layer, cx, cy, r2, fill) ==
  Ins("ellipse", role, [kind |-> "circle", layer |-> layer, colour |-> Colour(fill),
                        cx |-> cx, cy |-> cy, r2 |-> r2])
\* ImageDraw.Draw(layer).polygon(points, fill=fill): n points around
\* (cx, cy); w and h are the side lengths of a rectangle (n = 4), r2 the
\* squared mean radius of a blob
polygon(role, layer, n, cx, cy, w, h, r2, fill) ==
  Ins("polygon", role, [kind |-> "polygon", layer |-> layer, colour |-> Colour(fill),
                        n |-> n, cx |-> cx, cy |-> cy, w |-> w, h |-> h, r2 |-> r2])
\* dst.paste(src, (0, 0), mask)
paste(dst, src, mask) == Ins("paste", "mask", [dst |-> dst, src |-> src, mask |-> mask])
\* return base.convert("RGB")
convert == Ins("convert", "state", NoArg)

\* an exception propagating out of the call
raise(exc) == Ins("raise", "state", [exc |-> exc])

\* the position of a primitive placed by random draws: the k-th primitive
Random(k) == <<"random", k>>

----------------------------------------------------------------------------
(* ShapeGenerators: the drawing calls of each family generator.  a is the  *)
(* call's arguments, (cx, cy) the centre, radius the inner radius and      *)
(* coverage the coverage the caller hands over, in the backend's units.    *)

IsVector(a) == a.backend = "vector"

\* the calls of the rounds of a loop: rounds[k] is what the k-th round
\* issues, every round the same number of calls
ForEach(rounds) ==
  IF rounds = <<>> THEN <<>>
  ELSE LET len == Len(rounds[1])
       IN [i \in 1 .. (Len(rounds) * len) |->
             rounds[((i - 1) \div len) + 1][((i - 1) % len) + 1]]

\* c.setFillColor(colors.black) at the head of a vector generator; the
\* raster generators pass fill=0 with every shape instead
InkColour(a) == IF IsVector(a) THEN <<setFillColor("ink", "black")>> ELSE <<>>

\* c.saveState(); c.translate(cx, cy); c.rotate(angle_deg);
\* c.translate(-cx, -cy); c.setFillColor(colors.black)
RotateAboutCentre(cx, cy, angle_deg) ==
  <<saveState, translate(cx, cy), rotate(angle_deg), translate(RNeg(cx), RNeg(cy)),
    setFillColor("ink", "black")>>

\* a draw_irregular_circle that takes the polygon branch whatever the
\* irregularity
draw_irregular_circle_ops_always_polygon(a, cx, cy, r2, irregularity, rotation_deg) ==
  IF IsVector(a)
  THEN <<Ins("drawPath", "ink", [kind |-> "path", n |-> 64, cx |-> cx, cy |-> cy,
                                 r2 |-> r2, rotation_deg |-> rotation_deg])>>
  ELSE <<Ins("polygon", "ink", [kind |-> "polygon", layer |-> "tissue",
                                colour |-> Colour(0), n |-> 64, cx |-> cx, cy |-> cy,
                                w |-> RZero, h |-> RZero, r2 |-> r2,
                                rotation_deg |-> rotation_deg])>>

\* draw_irregular_circle and draw_irregular_circle_preview of try5.py, and
\* the same branch written inline in add_compact[_preview] of try1.py
draw_irregular_circle_ops(a, cx, cy, r2, irregularity, rotation_deg) ==
  IF RLe(irregularity, <<1, 100>>)
  THEN IF IsVector(a) THEN <<circle("ink", cx, cy, r2)>>
       ELSE <<ellipse("ink", "tissue", cx, cy, r2, 0)>>
  ELSE LET Turned(ins) == [ins EXCEPT !.arg = [kind |-> @.kind, n |-> @.n, cx |-> @.cx,
                                               cy |-> @.cy, r2 |-> @.r2,
                                               rotation_deg |-> rotation_deg]]
       IN IF IsVector(a) THEN <<Turned(drawPath("ink", 64, cx, cy, r2))>>
          ELSE <<[polygon("ink", "tissue", 64, cx, cy, RZero, RZero, r2, 0)
                    EXCEPT !.arg = [kind |-> @.kind, layer |-> @.layer, colour |-> @.colour,
                                    n |-> @.n, cx |-> @.cx, cy |-> @.cy, w |-> @.w,
                                    h |-> @.h, r2 |-> @.r2,
                                    rotation_deg |-> rotation_deg]]>>

\* add_compact that scales the radius by the coverage itself, without the
\* square root: the disc's area is then coverage ** 2 of the inner disc
add_compact_ops_linear(a, cx, cy, radius, coverage) ==
  IF RLe(coverage, RZero) THEN <<>>
  ELSE InkColour(a) \o
       draw_irregular_circle_ops(a, RAdd(cx, ToUnits(a, a.kw.offset_x_mm)),
                                 RAdd(cy, ToUnits(a, a.kw.offset_y_mm)),
                                 RSq(RMul(radius, coverage)), a.kw.irregularity, 0)

\* an add_compact that moves the lobes of a split scar apart by
\* split_distance
add_compact_ops_try5_with_gap(a, cx, cy, radius, coverage) ==
  IF RLe(coverage, RZero) THEN <<>>
  ELSE
    LET k == a.kw
        half_gap == RDiv(ToUnits(a, k.split_distance_mm), RInt(2))
        scar_radius_sq ==
          RMul(RSq(radius), RDiv(coverage, IF k.split_scar THEN RInt(2) ELSE ROne))
    IN InkColour(a) \o
       (IF k.split_scar
        THEN draw_irregular_circle_ops(a, RSub(RAdd(cx, ToUnits(a, k.left_offset_x_mm)),
                                               half_gap), cy,
                                       scar_radius_sq, k.irregularity,
                                       k.split_rotation_left)
             \o draw_irregular_circle_ops(a, RAdd(RAdd(cx, ToUnits(a, k.right_offset_x_mm)),
                                                  half_gap), cy,
                                          scar_radius_sq, k.irregularity,
                                          k.split_rotation_right)
        ELSE draw_irregular_circle_ops(a, RAdd(cx, ToUnits(a, k.offset_x_mm)),
                                       RAdd(cy, ToUnits(a, k.offset_y_mm)),
                                       scar_radius_sq, k.irregularity, 0))

\* add_compact and add_compact_preview of try5.py.  scar_radius =
\* radius * sqrt(coverage / (2 if split_scar else 1)) is carried by its
\* square; split_distance is read and never used
add_compact_ops_try5(a, cx, cy, radius, coverage) ==
  IF RLe(coverage, RZero) THEN <<>>
  ELSE
    LET k == a.kw
        scar_radius_sq ==
          RMul(RSq(radius), RDiv(coverage, IF k.split_scar THEN RInt(2) ELSE ROne))
    IN InkColour(a) \o
       (IF k.split_scar
        THEN draw_irregular_circle_ops(a, RAdd(cx, ToUnits(a, k.left_offset_x_mm)), cy,
                                       scar_radius_sq, k.irregularity,
                                       k.split_rotation_left)
             \o draw_irregular_circle_ops(a, RAdd(cx, ToUnits(a, k.right_offset_x_mm)), cy,
                                          scar_radius_sq, k.irregularity,
                                          k.split_rotation_right)
        ELSE draw_irregular_circle_ops(a, RAdd(cx, ToUnits(a, k.offset_x_mm)),
                                       RAdd(cy, ToUnits(a, k.offset_y_mm)),
                                       scar_radius_sq, k.irregularity, 0))

\* add_compact and add_compact_preview of try1.py
add_compact_ops_try1(a, cx, cy, radius, coverage) ==
  IF RLe(coverage, RZero) THEN <<>>
  ELSE InkColour(a) \o
       draw_irregular_circle_ops(a, RAdd(cx, ToUnits(a, a.kw.offset_x_mm)),
                                 RAdd(cy, ToUnits(a, a.kw.offset_y_mm)),
                                 RMul(RSq(radius), coverage), a.kw.irregularity, 0)

\* a rectangle whose saveState is never matched
RandomRect_without_restore(a, k, l, w) ==
  IF IsVector(a)
  THEN <<saveState, translate(Random(k), Random(k)), rotate(Random(k)),
         rect("ink", RNeg(RDiv(l, RInt(2))), RNeg(RDiv(w, RInt(2))), l, w)>>
  ELSE <<polygon("ink", "tissue", 4, Random(k), Random(k), l, w, RZero, 0)>>

\* one randomly placed, randomly turned rectangle of length l and width w
RandomRect(a, k, l, w) ==
  IF IsVector(a)
  THEN <<saveState, translate(Random(k), Random(k)), rotate(Random(k)),
         rect("ink", RNeg(RDiv(l, RInt(2))), RNeg(RDiv(w, RInt(2))), l, w),
         restoreState>>
  ELSE <<polygon("ink", "tissue", 4, Random(k), Random(k), l, w, RZero, 0)>>

\* a Diffuse branch that rounds the count up
diffuse_ops_try5_rounding_up(a, cx, cy, radius, coverage) ==
  LET l == ToUnits(a, a.kw.rect_length_mm)
      w == ToUnits(a, a.kw.rect_width_mm)
      Block(k) == RandomRect(a, k, l, w)
  IN InkColour(a) \o
     (IF RMul(l, w) = RZero THEN <<raise("ZeroDivisionError")>>
      ELSE ForEach([k \in (1 .. RCeil(RDiv(RMul(RMul(coverage, Pi), RSq(radius)),
                                               RMul(l, w)))) |-> Block(k)]))

\* the Diffuse branch written inline in generate_pattern and in
\* render_pattern_image of try5.py: no coverage guard, and the count
\* divides by rect_length * rect_width
diffuse_ops_try5(a, cx, cy, radius, coverage) ==
  LET l == ToUnits(a, a.kw.rect_length_mm)
      w == ToUnits(a, a.kw.rect_width_mm)
      Block(k) == RandomRect(a, k, l, w)
  IN InkColour(a) \o
     (IF RMul(l, w) = RZero THEN <<raise("ZeroDivisionError")>>
      ELSE ForEach([k \in (1 .. RFloor(RDiv(RMul(RMul(coverage, Pi), RSq(radius)),
                                                RMul(l, w)))) |-> Block(k)]))

\* add_diffuse and add_diffuse_preview of try2.py and try3.py: the vector
\* generator turns the whole field about the centre, the raster one turns
\* each corner
add_diffuse_ops(a, cx, cy, radius, coverage) ==
  IF RLe(coverage, RZero) THEN <<>>
  ELSE
    LET l == ToUnits(a, a.kw.rect_length_mm)
        w == ToUnits(a, a.kw.rect_width_mm)
        Block(k) == RandomRect(a, k, l, w)
    IN IF RMul(l, w) = RZero THEN <<raise("ZeroDivisionError")>>
       ELSE (IF IsVector(a) THEN RotateAboutCentre(cx, cy, a.kw.angle_deg) ELSE <<>>)
            \o ForEach([k \in (1 .. RFloor(RDiv(RMul(RMul(coverage, Pi), RSq(radius)),
                                                   RMul(l, w)))) |-> Block(k)])
            \o (IF IsVector(a) THEN <<restoreState>> ELSE <<>>)

\* add_diffuse and add_diffuse_preview of try1.py: discs ("spots").  The
\* vector generator divides by spacing ** 2 and by the spot area; the
\* raster one floors the spot radius at one pixel
add_diffuse_ops_try1(a, cx, cy, radius, coverage) ==
  IF RLe(coverage, RZero) THEN <<>>
  ELSE
    LET half == RDiv(ToUnits(a, a.kw.spot_size_mm), RInt(2))
        spot_radius == IF IsVector(a) THEN half ELSE RMax(ROne, half)
        spacing == ToUnits(a, a.kw.spacing_mm)
        area_total == RMul(Pi, RSq(radius))
        area_single_spot == RMul(Pi, RSq(spot_radius))
        Block(k) ==
          IF IsVector(a) THEN <<circle("ink", Random(k), Random(k), RSq(spot_radius))>>
          ELSE <<ellipse("ink", "tissue", Random(k), Random(k), RSq(spot_radius), 0)>>
    IN IF IsVector(a) /\ (spacing = RZero \/ spot_radius = RZero)
       THEN <<raise("ZeroDivisionError")>>
       ELSE InkColour(a) \o
            ForEach([k \in (1 .. RFloor(RDiv(RMul(coverage, area_total), area_single_spot)))
                       |-> Block(k)])

\* add_patchy and add_patchy_preview of try1.py: short rectangles of
\* ratio 1 : 0.3, each scaled by a random size factor
add_patchy_ops_try1(a, cx, cy, radius, coverage) ==
  IF RLe(coverage, RZero) THEN <<>>
  ELSE
    LET base_length == ToUnits(a, a.kw.patch_size_mm)
        base_width == RMul(base_length, <<3, 10>>)
        area_single_rect == RMul(base_length, base_width)
        n_rectangles ==
          RFloor(RDiv(RMul(coverage, RMul(Pi, RSq(radius))), area_single_rect))
        Block(k) ==
          IF IsVector(a) THEN <<drawPath("ink", 4, Random(k), Random(k), RZero)>>
          ELSE <<polygon("ink", "tissue", 4, Random(k), Random(k),
                         base_length, base_width, RZero, 0)>>
    IN IF area_single_rect = RZero THEN <<raise("ZeroDivisionError")>>
       ELSE InkColour(a) \o
            (IF n_rectangles > 0 /\ a.kw.dispersion = RZero
             THEN <<raise("ZeroDivisionError")>>
             ELSE ForEach([k \in (1 .. n_rectangles) |-> Block(k)]))

\* random.uniform(0, 1) read off the generator state st: a value of [0, 1).
\* The values are squares of fractions, so that u ** 0.5 is exact on them
uniform01(st) == RSq(Rat(RngOut(st), RngMod))

\* r_factor = random.uniform(0, 1) ** (1.0 / max(0.1, density)) of try5.py,
\* ** (1.0 / density) if density > 0 else the draw itself in try3.py; u is
\* the draw.  The exponents of the densities 1/2, 1 and 2 are 2, 1 and 1/2
r_factor(a, u) ==
  LET density == IF a.ver = "try5" THEN RMax(<<1, 10>>, a.kw.density) ELSE a.kw.density
      exponent == RDiv(ROne, density)
  IN IF ~RLt(RZero, density) THEN u
     ELSE CASE exponent = ROne -> u
            [] exponent = RInt(2) -> RSq(u)
            [] exponent = <<1, 2>> -> RSqrt(u)

\* size_variation = random.uniform(0.6, 1.4) * density; u is the draw of
\* random.uniform(0, 1) that uniform(0.6, 1.4) scales
size_variation(a, u) ==
  RMul(RAdd(<<3, 5>>, RMul(<<4, 5>>, u)), a.kw.density)

\* amplitudes[h] = random.uniform(0.15, 0.4) in try5.py, uniform(0.2, 0.5) in
\* try3.py; u is the draw of random.uniform(0, 1) that it scales
amplitude(a, u) ==
  IF a.ver = "try5" THEN RAdd(<<3, 20>>, RMul(<<1, 4>>, u))
  ELSE RAdd(<<1, 5>>, RMul(<<3, 10>>, u))

\* phases[h] = random.uniform(0, 2 * math.pi) read off the generator state
\* st, in quarter turns
phase_quarter(st) == RngOut(st) % 4

\* math.sin of q quarter turns
sin_quarter(q) == CASE q % 4 = 1 -> ROne [] q % 4 = 3 -> RInt(-1) [] OTHER -> RZero

\* a boundary that is distorted ten times as much
r_local_strong(a, amplitudes, phases, q) ==
  LET term(h) == RMul(amplitudes[h], sin_quarter(h * q + phases[h]))
      r_variation == RDiv(RAdd(RAdd(term(1), term(2)), RAdd(term(3), term(4))), RInt(4))
  IN RAdd(ROne, RMul(IF a.ver = "try5" THEN RInt(6) ELSE RInt(5), r_variation))

\* r_local / island_radius of the boundary vertex at q quarter turns
\* (i = q * n_points / 4): r_variation is the mean of the four harmonics
\* amplitudes[h] * sin(freq * angle_point + phases[h]) with freq = h, and
\* r_local = island_radius * (1.0 + 0.6 * r_variation), 0.5 in try3.py
r_local(a, amplitudes, phases, q) ==
  LET term(h) == RMul(amplitudes[h], sin_quarter(h * q + phases[h]))
      r_variation == RDiv(RAdd(RAdd(term(1), term(2)), RAdd(term(3), term(4))), RInt(4))
  IN RAdd(ROne, RMul(IF a.ver = "try5" THEN <<3, 5>> ELSE <<1, 2>>, r_variation))

\* the point (cx + r * cos(angle), cy + r * sin(angle)) of the k-th island,
\* angle being a draw of its own: the point at distance r from the centre
\* in a random direction; u is the draw r was computed from
Polar(k, u, r) == <<"polar", k, u, r>>

\* add_patchy and add_patchy_preview of try3.py (16 points) and try5.py
\* (32 points): int(num_islands) blobs.  island_radius = base_radius *
\* size_variation with base_radius = sqrt(area_per_island / pi), carried by
\* its square
add_patchy_ops(a, cx, cy, radius, coverage) ==
  IF RLe(coverage, RZero) \/ a.kw.num_islands <= 0 THEN <<>>
  ELSE
    LET area_total == RMul(Pi, RSq(radius))
        area_per_island == RDiv(RMul(coverage, area_total), RInt(a.kw.num_islands))
        base_radius_sq == RDiv(area_per_island, Pi)
        n_points == IF a.ver = "try3" THEN 16 ELSE 32
        \* the generator is in state a.kw.entry when the call is made; an
        \* island takes 11 draws: angle, r_factor, size_variation, the four
        \* amplitudes and the four phases
        at(k, d) == Advance(a.kw.entry, Len(add_patchy_try5) * (k - 1) + d - 1)
        U(k) == uniform01(at(k, 2))
        V(k) == uniform01(at(k, 3))
        amplitudes(k) == [h \in 1 .. 4 |-> amplitude(a, uniform01(at(k, 3 + h)))]
        phases(k) == [h \in 1 .. 4 |-> phase_quarter(at(k, 7 + h))]
        centre(k) == Polar(k, U(k), RMul(radius, r_factor(a, U(k))))
        island_radius_sq(k) == RMul(base_radius_sq, RSq(size_variation(a, V(k))))
        points(k) == [q \in 0 .. 3 |-> r_local(a, amplitudes(k), phases(k), q)]
        Block(k) ==
          IF IsVector(a)
          THEN <<Ins("drawPath", "ink",
                     [kind |-> "path", n |-> n_points, cx |-> centre(k), cy |-> centre(k),
                      r2 |-> island_radius_sq(k), points |-> points(k)])>>
          ELSE <<Ins("polygon", "ink",
                     [kind |-> "polygon", layer |-> "tissue", colour |-> Colour(0),
                      n |-> n_points, cx |-> centre(k), cy |-> centre(k), w |-> RZero,
                      h |-> RZero, r2 |-> island_radius_sq(k), points |-> points(k)])>>
    IN InkColour(a) \o ForEach([k \in (1 .. a.kw.num_islands) |-> Block(k)])

\* x = max(1.0, x) in the raster generators
Floor1(a, x) == IF IsVector(a) THEN x ELSE RMax(ROne, x)

\* The stripes of try1.py (add_interstitial, add_interstitial_preview),
\* written as a chain of operators, one per group of assignments.

\* a stripe width that is the coverage's share of the spacing
StripeWidth_share_of_spacing(a, coverage, spacing) ==
  Floor1(a, RMul(spacing, coverage))

\* actual_stripe_width: spacing * 99 at coverage >= 0.99, else
\* spacing * coverage / (1 - coverage); the raster generator floors it at
\* one pixel
StripeWidth(a, coverage, spacing) ==
  Floor1(a, IF RLe(<<99, 100>>, coverage) THEN RMul(spacing, RInt(99))
            ELSE RDiv(RMul(spacing, coverage), RSub(ROne, coverage)))

\* the i-th stripe: x = x_start + i * period with x_start = cx -
\* total_width / 2, total_width = num_stripes * period; from cy - diag * 1.5,
\* diag * 3 high
StripeOp(a, cx, cy, i, num_stripes, period, width, diag) ==
  LET x == RAdd(RNeg(RDiv(RMul(RInt(num_stripes), period), RInt(2))),
                RMul(RInt(i), period))
      xm == RAdd(x, RDiv(width, RInt(2)))
  IN IF IsVector(a)
     THEN rect("ink", RAdd(cx, x), RSub(cy, RMul(diag, <<3, 2>>)), width, RMul(diag, RInt(3)))
     ELSE polygon("ink", "tissue", 4,
                  RAdd(cx, RMul(xm, Cos(a.kw.angle_deg))),
                  RAdd(cy, RMul(xm, Sin(a.kw.angle_deg))),
                  width, RMul(diag, RInt(3)), RZero, 0)

\* for i in range(num_stripes)
StripeLoop(a, cx, cy, num_stripes, period, width, diag) ==
  (IF IsVector(a) THEN RotateAboutCentre(cx, cy, a.kw.angle_deg) ELSE <<>>)
  \o [n \in 1 .. num_stripes |-> StripeOp(a, cx, cy, n - 1, num_stripes, period, width, diag)]
  \o (IF IsVector(a) THEN <<restoreState>> ELSE <<>>)

\* num_stripes = int(math.ceil(diag * 2 / period)) + 6, diag = radius * 3
StripeCount(a, cx, cy, radius, period, width) ==
  IF period = RZero THEN <<raise("ZeroDivisionError")>>
  ELSE StripeLoop(a, cx, cy, RCeil(RDiv(RMul(radius, RInt(6)), period)) + 6,
                  period, width, RMul(radius, RInt(3)))

\* period = actual_stripe_width + spacing
StripePeriod(a, cx, cy, radius, spacing, width) ==
  StripeCount(a, cx, cy, radius, RAdd(width, spacing), width)

\* spacing is the stripe_width_mm argument, floored at one pixel in the
\* raster generator
StripeSpacing(a, cx, cy, radius, coverage, spacing) ==
  StripePeriod(a, cx, cy, radius, spacing, StripeWidth(a, coverage, spacing))

\* add_interstitial and add_interstitial_preview of try1.py
add_interstitial_ops_try1(a, cx, cy, radius, coverage) ==
  IF RLe(coverage, RZero) THEN <<>>
  ELSE StripeSpacing(a, cx, cy, radius, coverage,
                     Floor1(a, ToUnits(a, a.kw.stripe_width_mm)))

\* The rectangle mesh of try2.py, try3.py and try5.py (add_interstitial,
\* add_interstitial_preview), written as a chain of operators, one per
\* group of assignments, each handing its values to the next.

\* actual_coverage = area_rect / area_per_unit if area_per_unit > 0 else 0
actual_coverage(l, w, sa, sb) ==
  LET area_per_unit == RMul(RAdd(l, sa), RAdd(w, sb))
  IN IF RLt(RZero, area_per_unit) THEN RDiv(RMul(l, w), area_per_unit) ELSE RZero

\* a rescaling that has no upper guard on actual_coverage
scale_sq_no_upper_guard(coverage, actual) ==
  IF RLt(RZero, actual) THEN RDiv(coverage, actual) ELSE ROne

\* coverage / actual_coverage, the square of scale_factor, when the
\* rectangles are rescaled (0 < actual_coverage < 0.99), else 1
scale_sq(coverage, actual) ==
  IF RLt(RZero, actual) /\ RLt(actual, <<99, 100>>) THEN RDiv(coverage, actual) ELSE ROne

\* the square of the scale factor of call a
MeshScaleSq(a, radius, coverage) ==
  scale_sq(coverage,
           actual_coverage(ToUnits(a, a.kw.rect_length_mm),
                           ToUnits(a, a.kw.rect_width_mm),
                           Floor1(a, ToUnits(a, a.kw.spacing_along_mm)),
                           Floor1(a, ToUnits(a, a.kw.spacing_across_mm))))

\* a grid whose indentation is a percentage of half a period
CellX_of_half_period(i, j, num_along, period_along, indentation) ==
  RAdd(RAdd(RDiv(RMul(RInt(-num_along), period_along), RInt(2)),
            RMul(RInt(i), period_along)),
       IF j % 2 = 1 THEN RMul(period_along, Rat(indentation, 200)) ELSE RZero)

\* a grid that shifts every row, the even ones too
CellX_every_row(i, j, num_along, period_along, indentation) ==
  RAdd(RAdd(RDiv(RMul(RInt(-num_along), period_along), RInt(2)),
            RMul(RInt(i), period_along)),
       RMul(period_along, Rat(indentation, 100)))

\* x of cell (i, j), relative to the centre: start_along + i * period_along,
\* plus period_along * (indentation / 100.0) on every other row
CellX(i, j, num_along, period_along, indentation) ==
  RAdd(RAdd(RDiv(RMul(RInt(-num_along), period_along), RInt(2)),
            RMul(RInt(i), period_along)),
       IF j % 2 = 1 THEN RMul(period_along, Rat(indentation, 100)) ELSE RZero)

\* y of row j: start_across + j * period_across
CellY(j, num_across, period_across) ==
  RAdd(RDiv(RMul(RInt(-num_across), period_across), RInt(2)),
       RMul(RInt(j), period_across))

\* the rectangle drawn for a cell at (x, y)
CellOp(a, cx, cy, x, y, length, width) ==
  IF IsVector(a)
  THEN rect("ink", RSub(RAdd(cx, x), RDiv(length, RInt(2))),
            RSub(RAdd(cy, y), RDiv(width, RInt(2))), length, width)
  ELSE polygon("ink", "tissue", 4,
               RAdd(cx, RSub(RMul(x, Cos(a.kw.angle_deg)), RMul(y, Sin(a.kw.angle_deg)))),
               RAdd(cy, RAdd(RMul(x, Sin(a.kw.angle_deg)), RMul(y, Cos(a.kw.angle_deg)))),
               length, width, RZero, 0)

\* for i in range(num_along): for j in range(num_across): the cells that
\* pass dist <= radius + adjusted_length, in loop order
MeshCells(a, cx, cy, reach, length, width, pa, pc, num_along, num_across) ==
  LET X(c) == CellX((c - 1) \div num_across, (c - 1) % num_across, num_along, pa,
                    a.kw.indentation)
      Y(c) == CellY((c - 1) % num_across, num_across, pc)
      cells == SelectSeq([c \in 1 .. (num_along * num_across) |-> c],
                         LAMBDA c: WithinDist(X(c), Y(c), reach))
  IN [n \in 1 .. Len(cells) |-> CellOp(a, cx, cy, X(cells[n]), Y(cells[n]), length, width)]

\* num_along = int(math.ceil(diag * 2 / period_along)) + 4, and across
MeshGrid(a, cx, cy, radius, length, width, pa, pc) ==
  IF pa = RZero \/ pc = RZero THEN <<raise("ZeroDivisionError")>>
  ELSE (IF IsVector(a) THEN RotateAboutCentre(cx, cy, a.kw.angle_deg) ELSE <<>>)
       \o MeshCells(a, cx, cy, RAdd(radius, length), length, width, pa, pc,
                    RCeil(RDiv(RMul(radius, RInt(6)), pa)) + 4,
                    RCeil(RDiv(RMul(radius, RInt(6)), pc)) + 4)
       \o (IF IsVector(a) THEN <<restoreState>> ELSE <<>>)

\* period_along = adjusted_length + spacing_along, and across
MeshPeriods(a, cx, cy, radius, length, width) ==
  MeshGrid(a, cx, cy, radius, length, width,
           RAdd(length, Floor1(a, ToUnits(a, a.kw.spacing_along_mm))),
           RAdd(width, Floor1(a, ToUnits(a, a.kw.spacing_across_mm))))

\* adjusted_length = rect_length * scale_factor, and width
MeshScaled(a, cx, cy, radius, scale_factor) ==
  MeshPeriods(a, cx, cy, radius,
              RMul(ToUnits(a, a.kw.rect_length_mm), scale_factor),
              RMul(ToUnits(a, a.kw.rect_width_mm), scale_factor))

\* add_interstitial and add_interstitial_preview of try3.py and try5.py,
\* and add_interstitial_preview of try2.py
add_interstitial_ops(a, cx, cy, radius, coverage) ==
  IF RLe(coverage, RZero) THEN <<>>
  ELSE MeshScaled(a, cx, cy, radius, RSqrt(MeshScaleSq(a, radius, coverage)))

\* math.sqrt(2) as a rational
Sqrt2 == <<99, 70>>

\* add_interstitial and add_interstitial_preview of pattern-creator.py up
\* to their while loop: the stripe width, the gap and the loop's bounds.
\* The vector generator returns at once when coverage <= 0; the raster one
\* has no such guard and floors the stripe width at one pixel.
StripeLayout(a, cx, cy, radius, coverage) ==
  LET given ==
        IF IsVector(a)
        THEN RMul(RDiv(a.kw.stripe_width_um, RInt(1000)), mm)
        ELSE RMul(RDiv(a.kw.stripe_width_um, RMul(a.circle_diameter_mm, RInt(1000))),
                  RMul(RInt(2), radius))
      stripe_width == IF IsVector(a) THEN given ELSE RMax(ROne, given)
      spread == RDiv(RMul(stripe_width, RSub(ROne, coverage)),
                     RMax(coverage, <<1, 1000000>>))
      gap ==
        IF IsVector(a)
        THEN (IF RLe(ROne, coverage) THEN RZero ELSE spread)
        ELSE (IF RLt(RZero, coverage) THEN spread ELSE RZero)
      diag == RMul(RMul(radius, RInt(2)), Sqrt2)
      total_width == RAdd(diag, RMul(RInt(4), RAdd(stripe_width, gap)))
      x0 == IF IsVector(a) THEN RSub(cx, RDiv(total_width, RInt(2)))
            ELSE RNeg(RDiv(total_width, RInt(2)))
  IN [x |-> x0, limit |-> RAdd(x0, total_width), step |-> RAdd(stripe_width, gap),
      stripe_width |-> stripe_width, diag |-> diag, cx |-> cx, cy |-> cy,
      angle_deg |-> a.kw.stripe_angle_deg, backend |-> a.backend]

\* the while loop itself is run by the machine, one round per step
while(layout) == Ins("while", "ink", layout)

\* temp.paste(255, mask=Image.eval(mask, lambda v: 255 - v))
paste_outside(dst, mask) ==
  Ins("paste", "mask", [dst |-> dst, src |-> "white", mask |-> <<"inverted", mask>>])
\* draw.bitmap((0, 0), temp): paints the draw object's default ink, 255 in
\* mode "L", wherever temp is non-zero
bitmap(layer, stencil) ==
  Ins("bitmap", "ink", [kind |-> "bitmap", layer |-> layer, stencil |-> stencil,
                        colour |-> Colour(255)])

\* add_interstitial and add_interstitial_preview of pattern-creator.py
add_interstitial_ops_pc(a, cx, cy, radius, coverage) ==
  IF IsVector(a)
  THEN IF RLe(coverage, RZero) THEN <<>>
       ELSE RotateAboutCentre(cx, cy, a.kw.stripe_angle_deg)
            \o <<while(StripeLayout(a, cx, cy, radius, coverage)), restoreState>>
  ELSE <<Image_new("temp", 255),
         while(StripeLayout(a, cx, cy, radius, coverage)),
         Image_new("stripe_mask", 0),
         ellipse("mask", "stripe_mask", cx, cy, RSq(radius), 255),
         paste_outside("temp", "stripe_mask"),
         bitmap("tissue", "temp")>>

----------------------------------------------------------------------------
(* GeometryRenderer: generate_pattern (vector) and render_pattern_image    *)
(* (raster) as the sequence of drawing calls they make.                    *)

\* the generator generate_pattern / render_pattern_image dispatches to.
\* try2.py's generate_pattern passes eleven arguments to its ten-parameter
\* add_interstitial.
FamilyOps(a, cx, cy, radius, coverage) ==
  LET f == a.pattern_type
  IN CASE a.ver = "pattern-creator" -> add_interstitial_ops_pc(a, cx, cy, radius, coverage)
       [] a.ver = "try1" /\ f = "Interstitial" ->
            add_interstitial_ops_try1(a, cx, cy, radius, coverage)
       [] a.ver = "try1" /\ f = "Diffuse" -> add_diffuse_ops_try1(a, cx, cy, radius, coverage)
       [] a.ver = "try1" /\ f = "Patchy" -> add_patchy_ops_try1(a, cx, cy, radius, coverage)
       [] a.ver = "try1" /\ f = "Compact" -> add_compact_ops_try1(a, cx, cy, radius, coverage)
       [] a.ver = "try2" /\ f = "Interstitial" /\ IsVector(a) -> <<raise("TypeError")>>
       [] a.ver \in {"try2", "try3", "try5"} /\ f = "Interstitial" ->
            add_interstitial_ops(a, cx, cy, radius, coverage)
       [] a.ver \in {"try2", "try3"} /\ f = "Diffuse" ->
            add_diffuse_ops(a, cx, cy, radius, coverage)
       [] a.ver = "try5" /\ f = "Diffuse" -> diffuse_ops_try5(a, cx, cy, radius, coverage)
       [] a.ver \in {"try3", "try5"} /\ f = "Patchy" ->
            add_patchy_ops(a, cx, cy, radius, coverage)
       [] a.ver = "try5" /\ f = "Compact" -> add_compact_ops_try5(a, cx, cy, radius, coverage)
       [] OTHER -> <<>>

\* the calls made until an exception leaves the function
RECURSIVE UpToRaise(_)
UpToRaise(ops) ==
  IF ops = <<>> THEN <<>>
  ELSE IF Head(ops).op = "raise" THEN <<Head(ops)>>
  ELSE <<Head(ops)>> \o UpToRaise(Tail(ops))

\* draw_circle_background (pattern-creator.py, try1.py) and the same lines
\* of generate_pattern: the page, then the tissue disc.  try2.py and
\* try3.py fill the page white.
Background(a, page, cx, cy, radius) ==
  CASE a.ver \in {"pattern-creator", "try1", "try5"} ->
         <<setFillColor("background", "black"),
           rect("background", RZero, RZero, page, page),
           setFillColor("tissue", "white"),
           circle("tissue", cx, cy, RSq(radius))>>
    [] a.ver = "try2" ->
         <<setFillColor("background", "white"),
           rect("background", RZero, RZero, page, page),
           setFillColor("tissue", "white"),
           circle("tissue", cx, cy, RSq(radius))>>
    [] a.ver = "try3" ->
         <<setFillColor("background", "white"),
           rect("background", RZero, RZero, page, page),
           circle("tissue", cx, cy, RSq(radius))>>

\* generate_pattern that clips to the outer circle only
generate_pattern_ops_outer_clip_only(a) ==
  LET cx == Centre(a)
      radius == OuterRadius(a)
  IN UpToRaise(
       Background(a, RMul(RInt(2), cx), cx, cx, radius)
       \o <<saveState, clipPath("outer", cx, cx, radius), saveState>>
       \o FamilyOps(a, cx, cx, PatternRadius(a), FamilyCoverage(a))
       \o <<restoreState, restoreState, showPage, save>>)

\* generate_pattern (generate_pdf_pattern in try3.py)
generate_pattern_ops(a) ==
  LET cx == Centre(a)
      radius == OuterRadius(a)
      pattern_radius == PatternRadius(a)
  IN UpToRaise(
       Background(a, RMul(RInt(2), cx), cx, cx, radius)
       \o <<saveState, clipPath("outer", cx, cx, radius),
            saveState, clipPath("inner", cx, cx, pattern_radius)>>
       \o FamilyOps(a, cx, cx, pattern_radius, FamilyCoverage(a))
       \o <<restoreState, restoreState, showPage, save>>)

\* render_pattern_image
render_pattern_image_ops(a) ==
  LET cx == Centre(a)
      radius == OuterRadius(a)
      pattern_radius == PatternRadius(a)
  IN UpToRaise(
       <<Image_new("base", 0),
         ellipse("tissue", "base", cx, cx, RSq(radius), 255),
         Image_new("tissue", 255)>>
       \o FamilyOps(a, cx, cx, pattern_radius, FamilyCoverage(a))
       \o <<Image_new("mask", 0),
            ellipse("mask", "mask", cx, cx, RSq(pattern_radius), 255),
            paste("base", "tissue", "mask"),
            convert>>)

Program(a) == IF IsVector(a) THEN generate_pattern_ops(a) ELSE render_pattern_image_ops(a)

----------------------------------------------------------------------------
(* The calls stepped through: versions, backends, families and arguments   *)

\* most rounds of the stripe loop of pattern-creator.py that are followed
MaxRounds == 32
\* num_islands of a Patchy call
MaxIslands == 2

\* size_px of the calls: a canvas of 10 by 10 pixels
Sizes == {10}
\* circle_diameter_mm: the 10 mm well of MATTEK_SIZES
Diameter == <<10, 1>>
\* white_border_fraction: below 0, the three of the coverage table, above 0.9
Borders == {<<-1, 10>>, RZero, <<3, 20>>, <<7, 20>>, <<19, 20>>}
CompactCoverages == {RZero, <<1, 10>>, <<3, 10>>, <<3, 5>>, <<9, 10>>}

\* keyword arguments per family
StripeKw(v) ==
  IF v = "pattern-creator"
  THEN {[stripe_width_um |-> w, stripe_angle_deg |-> g] :
          w \in {RZero, RInt(2000)}, g \in {0, 90}}
  ELSE {[stripe_width_mm |-> w, angle_deg |-> g] : w \in {RZero, RInt(4)}, g \in {0, 90}}

\* <<rect_length, spacing_along, rect_width, spacing_across>> in mm: a
\* regular mesh, the two meshes with a zero period, the mesh without gaps
\* (nominal coverage 1 in the vector backend), and a mesh of rectangles
\* six times as wide as long
MeshKw ==
  {[rect_length_mm |-> RInt(m[1]), spacing_along_mm |-> RInt(m[2]),
    rect_width_mm |-> RInt(m[3]), spacing_across_mm |-> RInt(m[4]),
    angle_deg |-> g, indentation |-> ind] :
     m \in {<<4, 4, 4, 4>>, <<0, 0, 4, 4>>, <<4, 4, 0, 0>>, <<4, 0, 4, 0>>,
            <<1, 1, 6, 6>>},
     g \in {0, 90}, ind \in {0, 50, 100}}

DiffuseKw(v) ==
  IF v = "try1"
  THEN {[spot_size_mm |-> sz, spacing_mm |-> sp] :
          sz \in {RZero, RInt(5)}, sp \in {RZero, RInt(5)}}
  ELSE {[rect_length_mm |-> l, rect_width_mm |-> w, randomness |-> <<1, 2>>,
         angle_deg |-> 0] : l \in {RZero, RInt(2)}, w \in {RZero, RInt(4)}}

PatchyKw(v) ==
  IF v = "try1"
  THEN {[patch_size_mm |-> sz, dispersion |-> d] :
          sz \in {RZero, RInt(5)}, d \in {RZero, ROne}}
  ELSE {[num_islands |-> n, density |-> d, entry |-> st] :
          n \in {0, MaxIslands}, d \in {<<1, 2>>, ROne, RInt(2)}, st \in RngStates}

\* lobes is <<left_offset_x_mm, right_offset_x_mm>> of a split scar: the
\* GUI's defaults, lobes 2 mm apart and lobes 6 mm apart
CompactKw(v) ==
  IF v = "try1"
  THEN {[irregularity |-> irr, offset_x_mm |-> ox, offset_y_mm |-> RZero] :
          irr \in {RZero, <<1, 2>>}, ox \in {RZero, ROne}}
  ELSE {[irregularity |-> irr, offset_x_mm |-> ox, offset_y_mm |-> RZero,
         split_scar |-> FALSE, split_distance_mm |-> RZero,
         left_offset_x_mm |-> RZero, right_offset_x_mm |-> RZero,
         split_rotation_left |-> 0, split_rotation_right |-> 0] :
          irr \in {RZero, <<1, 2>>}, ox \in {RZero, ROne}}
       \cup
       {[irregularity |-> irr, offset_x_mm |-> RZero, offset_y_mm |-> RZero,
         split_scar |-> TRUE, split_distance_mm |-> sd,
         left_offset_x_mm |-> RInt(lobes[1]), right_offset_x_mm |-> RInt(lobes[2]),
         split_rotation_left |-> rot, split_rotation_right |-> 0] :
          irr \in {RZero, <<1, 2>>}, sd \in {RZero, RInt(2)},
          lobes \in {<<0, 0>>, <<-1, 1>>, <<-3, 3>>}, rot \in {0, 90}}

Kw(v, f) ==
  CASE f = "Interstitial" -> (IF v \in {"pattern-creator", "try1"} THEN StripeKw(v) ELSE MeshKw)
    [] f = "Diffuse" -> DiffuseKw(v)
    [] f = "Patchy" -> PatchyKw(v)
    [] f = "Compact" -> CompactKw(v)

Coverages(v, f) ==
  CASE f = "Compact" -> CompactCoverages
    [] f = "Interstitial" /\ v = "pattern-creator" -> {RZero, <<1, 2>>, ROne}
    [] f = "Interstitial" /\ v = "try1" -> {RZero, <<1, 20>>, <<1, 4>>}
    [] f = "Interstitial" -> {RZero, <<1, 4>>}
    [] OTHER -> {RZero, <<3, 10>>}

Args(v, b, f, cov, border, px, kw) ==
  [ver |-> v, backend |-> b, pattern_type |-> f, coverage |-> cov,
   circle_diameter_mm |-> Diameter, white_border_fraction |-> border,
   size_px |-> px, kw |-> kw]

\* the mesh calls whose scale factor is the square root of a quotient of
\* two squares; the others are not stepped through
SqrtExact(a) ==
  \/ a.pattern_type # "Interstitial"
  \/ a.ver \in {"pattern-creator", "try1"}
  \/ IsSquare(MeshScaleSq(a, PatternRadius(a), FamilyCoverage(a)))

CallSpace ==
  {a \in UNION {{Args(v, b, f, cov, border, px, kw) :
                   cov \in Coverages(v, f), border \in Borders, px \in Sizes,
                   kw \in Kw(v, f)} :
                v \in Versions, b \in Backends, f \in {"Interstitial", "Diffuse", "Patchy", "Compact"}} :
     a.pattern_type \in Families(a.ver) /\ SqrtExact(a)}

----------------------------------------------------------------------------
(* The canvas and the images as a machine: CallSpec takes one call of      *)
(* CallSpace and makes its drawing calls one at a time.                    *)

\* a fresh reportlab canvas fills black, clips nothing, transforms nothing
FreshState == [fill |-> "black", clip |-> <<>>, ctm |-> <<>>]

Mark(layer, role, colour, clip, ctm, shape) ==
  [layer |-> layer, role |-> role, colour |-> colour, clip |-> clip,
   ctm |-> ctm, shape |-> shape]

CallInit ==
  \E a \in CallSpace :
    /\ call = a
    /\ todo = Program(a)
    /\ gs = FreshState
    /\ gstack = <<>>
    /\ marks = <<>>
    /\ images = <<>>
    /\ pastes = <<>>
    /\ outcome = "running"
    /\ ver = a.ver
    /\ params = [pattern_type |-> a.pattern_type, count |-> 0,
                 irregular |-> (a.pattern_type = "Compact"
                                  /\ RLt(<<1, 100>>, a.kw.irregularity)),
                 split |-> (a.pattern_type = "Compact" /\ a.ver = "try5"
                              /\ a.kw.split_scar)]
    /\ rng = (IF "entry" \in DOMAIN a.kw THEN a.kw.entry ELSE 0)
    /\ last_seed = NoSeed
    /\ preview = <<>>
    /\ doc = <<>>
    /\ lastCall = NoCall
    /\ memo = NoCall
    /\ ZoomInit

\* the next drawing call is one of ops
At(ops) == outcome = "running" /\ todo # <<>> /\ Head(todo).op \in ops

\* c.saveState()
do_saveState ==
  /\ At({"saveState"})
  /\ gstack' = Append(gstack, gs)
  /\ todo' = Tail(todo)
  /\ UNCHANGED <<call, gs, marks, images, pastes, outcome, sessVars>>

\* c.restoreState(): the fill colour, the clip and the transform go back
\* to what the matching saveState pushed
do_restoreState ==
  /\ At({"restoreState"})
  /\ IF gstack = <<>>
     THEN /\ outcome' = "IndexError"
          /\ UNCHANGED <<gs, gstack>>
     ELSE /\ gs' = gstack[Len(gstack)]
          /\ gstack' = SubSeq(gstack, 1, Len(gstack) - 1)
          /\ UNCHANGED outcome
  /\ todo' = Tail(todo)
  /\ UNCHANGED <<call, marks, images, pastes, sessVars>>

\* c.clipPath(p, stroke=0, fill=0): the clip is intersected with p
do_clipPath ==
  /\ At({"clipPath"})
  /\ gs' = [gs EXCEPT !.clip = Append(@, Head(todo).arg)]
  /\ todo' = Tail(todo)
  /\ UNCHANGED <<call, gstack, marks, images, pastes, outcome, sessVars>>

\* c.setFillColor(colour)
do_setFillColor ==
  /\ At({"setFillColor"})
  /\ gs' = [gs EXCEPT !.fill = Head(todo).arg.colour]
  /\ todo' = Tail(todo)
  /\ UNCHANGED <<call, gstack, marks, images, pastes, outcome, sessVars>>

\* c.translate(dx, dy) and c.rotate(deg)
do_transform ==
  /\ At({"translate", "rotate"})
  /\ gs' = [gs EXCEPT !.ctm = Append(@, Head(todo))]
  /\ todo' = Tail(todo)
  /\ UNCHANGED <<call, gstack, marks, images, pastes, outcome, sessVars>>

\* the values the generator takes from the random stream for the shape a
\* drawing call paints: those of one primitive of the family for an ink
\* shape, none for the background, the tissue disc and the masks
Draws(ins) ==
  IF ins.role = "ink" /\ ins.op # "bitmap"
  THEN Len(DrawOrder(call.ver, call.backend, params))
  ELSE 0

\* c.rect, c.circle, c.drawPath with fill=1: painted in the current fill
\* colour, through the current clip, under the current transform
do_paint ==
  /\ At({"rect", "circle", "drawPath"})
  /\ marks' = Append(marks, Mark("page", Head(todo).role, gs.fill, gs.clip, gs.ctm,
                                 Head(todo).arg))
  /\ rng' = Advance(rng, Draws(Head(todo)))
  /\ todo' = Tail(todo)
  /\ UNCHANGED <<call, gs, gstack, images, pastes, outcome>>
  /\ UNCHANGED <<ver, params, last_seed, preview, doc, lastCall, memo,
                 zoom_index, zoom_level>>

\* Image.new("L", size, fill)
do_Image_new ==
  /\ At({"Image.new"})
  /\ images' = Append(images, Head(todo).arg)
  /\ todo' = Tail(todo)
  /\ UNCHANGED <<call, gs, gstack, marks, pastes, outcome, sessVars>>

\* ImageDraw ellipse, polygon, bitmap on one image
do_draw ==
  /\ At({"ellipse", "polygon", "bitmap"})
  /\ marks' = Append(marks, Mark(Head(todo).arg.layer, Head(todo).role,
                                 Head(todo).arg.colour, <<>>, <<>>, Head(todo).arg))
  /\ rng' = Advance(rng, Draws(Head(todo)))
  /\ todo' = Tail(todo)
  /\ UNCHANGED <<call, gs, gstack, images, pastes, outcome>>
  /\ UNCHANGED <<ver, params, last_seed, preview, doc, lastCall, memo,
                 zoom_index, zoom_level>>

\* Image.paste through a mask
do_paste ==
  /\ At({"paste"})
  /\ pastes' = Append(pastes, Head(todo).arg)
  /\ todo' = Tail(todo)
  /\ UNCHANGED <<call, gs, gstack, marks, images, outcome, sessVars>>

\* one test of the stripe loop of pattern-creator.py, and one round of its
\* body when the test passes:  while x < x0 + total_width: <one stripe>;
\* x += stripe_width + gap
do_while ==
  /\ At({"while"})
  /\ LET w == Head(todo).arg
         height == w.diag
         stripe ==
           IF w.backend = "vector"
           THEN Mark("page", "ink", gs.fill, gs.clip, gs.ctm,
                     [kind |-> "rect", x |-> w.x, y |-> RSub(w.cy, RDiv(w.diag, RInt(2))),
                      w |-> w.stripe_width, h |-> height])
           ELSE LET xm == RAdd(w.x, RDiv(w.stripe_width, RInt(2)))
                IN Mark("temp", "ink", Colour(0), <<>>, <<>>,
                        [kind |-> "polygon", n |-> 4,
                         cx |-> RAdd(w.cx, RMul(xm, Cos(w.angle_deg))),
                         cy |-> RAdd(w.cy, RMul(xm, Sin(w.angle_deg))),
                         w |-> w.stripe_width, h |-> height])
     IN IF RLt(w.x, w.limit)
        THEN /\ Len(marks) < MaxRounds
             /\ marks' = Append(marks, stripe)
             /\ todo' = <<while([w EXCEPT !.x = RAdd(w.x, w.step)])>> \o Tail(todo)
        ELSE /\ todo' = Tail(todo)
             /\ UNCHANGED marks
  /\ UNCHANGED <<call, gs, gstack, images, pastes, outcome, sessVars>>

\* c.showPage(), then c.save() or return base.convert("RGB"): the call
\* returns its artifact
do_finish ==
  /\ At({"showPage", "save", "convert"})
  /\ outcome' = IF Head(todo).op = "showPage" THEN outcome ELSE "returned"
  /\ todo' = Tail(todo)
  /\ UNCHANGED <<call, gs, gstack, marks, images, pastes, sessVars>>

\* an exception leaves the function: nothing after it is executed
do_raise ==
  /\ At({"raise"})
  /\ outcome' = Head(todo).arg.exc
  /\ todo' = Tail(todo)
  /\ UNCHANGED <<call, gs, gstack, marks, images, pastes, sessVars>>

CallNext ==
  \/ do_saveState
  \/ do_restoreState
  \/ do_clipPath
  \/ do_setFillColor
  \/ do_transform
  \/ do_paint
  \/ do_Image_new
  \/ do_draw
  \/ do_paste
  \/ do_while
  \/ do_finish
  \/ do_raise

CallSpec == CallInit /\ [][CallNext]_vars

----------------------------------------------------------------------------
(* Claims about one synthesis call (CallSpec)                              *)

\* a call is being made or has ended
InCall == outcome # "idle"

\* the marks made by ink-drawing statements of the family generators
InkMarks == SelectSeq(marks, LAMBDA m: m.role = "ink")

\* the marks on one image
MarksOn(layer) == SelectSeq(marks, LAMBDA m: m.layer = layer)

\* outer diameter of the call in the backend's own unit
OuterDiameter(a) == RMul(RInt(2), OuterRadius(a))

\* the Compact calls whose inked area is exactly the scar disc
PlainCompact(a) ==
  /\ a.ver = "try5" /\ a.pattern_type = "Compact"
  /\ ~a.kw.split_scar
  /\ a.kw.offset_x_mm = RZero /\ a.kw.offset_y_mm = RZero
  /\ a.kw.irregularity = RZero

\* the squared radius of a disc mark that is left by the circular clips it
\* is painted through and, in the raster backend, by the mask of the paste;
\* all of them are centred on the mark in a PlainCompact call
VisibleR2(m) ==
  LET clips == {RSq(m.clip[i].r) : i \in 1 .. Len(m.clip)}
      masks == IF m.layer = "page" THEN {}
               ELSE {MarksOn("mask")[i].shape.r2 : i \in 1 .. Len(MarksOn("mask"))}
      all == {m.shape.r2} \cup clips \cup masks
  IN CHOOSE x \in all : \A y \in all : RLe(x, y)

\* inked area of a returned PlainCompact call over the area of the outer disc
InkedFraction ==
  IF InkMarks = <<>> THEN RZero
  ELSE RDiv(VisibleR2(InkMarks[1]), RSq(OuterRadius(call)))

\* C5 as stated: in try5.py, for the Compact family with split off, zero
\* offset and irregularity 0, the inked fraction of the outer disc of a
\* returned call is within 0.02 of the target coverage, for every coverage
\* in {0, 0.1, 0.3, 0.6, 0.9} and border in {0, 0.15, 0.35}, in both backends
C5_CoverageAccuracy ==
  (outcome = "returned" /\ PlainCompact(call))
    => RLe(RAbs(RSub(InkedFraction, call.coverage)), <<1, 50>>)

\* C5 amended: under the same conditions the inked fraction of the outer
\* disc is within 0.02 of the smaller of the target coverage and 0.99 times
\* the share of the outer disc that the inner disc takes, (1 - border) ** 2
C5_CoverageAccuracyClamped ==
  (outcome = "returned" /\ PlainCompact(call))
    => RLe(RAbs(RSub(InkedFraction,
                     RMin(call.coverage, RMul(<<99, 100>>, AreaRatio(call))))),
           <<1, 50>>)

\* a returned plain Compact call with a border whose scar disc was drawn
\* and whose target is within reach of the inner disc
C5_Witness ==
  /\ outcome = "returned" /\ PlainCompact(call)
  /\ call.white_border_fraction = <<3, 20>> /\ call.coverage = <<3, 5>>
  /\ Len(InkMarks) = 1
  /\ RLe(RAbs(RSub(InkedFraction, call.coverage)), <<1, 50>>)

\* a circular clip of radius r about the centre of the call is in force
ClippedTo(m, r) ==
  \E i \in 1 .. Len(m.clip) :
    m.clip[i].r = r /\ m.clip[i].cx = Centre(call) /\ m.clip[i].cy = Centre(call)

\* the mask image holds the white inner disc on black and nothing else
InnerDiscMask ==
  /\ \E i \in 1 .. Len(images) : images[i] = [layer |-> "mask", colour |-> "black"]
  /\ Len(MarksOn("mask")) = 1
  /\ MarksOn("mask")[1].colour = "white"
  /\ MarksOn("mask")[1].shape.kind = "circle"
  /\ MarksOn("mask")[1].shape.r2 = RSq(PatternRadius(call))
  /\ MarksOn("mask")[1].shape.cx = Centre(call)
  /\ MarksOn("mask")[1].shape.cy = Centre(call)

\* C6: in every state of a synthesis call, for every family, every ink mark
\* of the vector backend was painted while both the outer and the inner
\* circular clip were in force; in the raster backend no ink mark is on the
\* base image, and whatever is pasted onto the base image is the tissue
\* layer through the mask holding the inner disc
C6_Containment ==
  InCall =>
    /\ \A i \in 1 .. Len(InkMarks) :
         IF InkMarks[i].layer = "page"
         THEN /\ ClippedTo(InkMarks[i], OuterRadius(call))
              /\ ClippedTo(InkMarks[i], PatternRadius(call))
         ELSE InkMarks[i].layer \in {"tissue", "temp"}
    /\ \A i \in 1 .. Len(pastes) :
         pastes[i].dst = "base" =>
           pastes[i].src = "tissue" /\ pastes[i].mask = "mask" /\ InnerDiscMask

\* a returned vector call with a border that painted ink
C6_Witness ==
  /\ outcome = "returned" /\ IsVector(call)
  /\ call.white_border_fraction = <<7, 20>>
  /\ InkMarks # <<>>
  /\ RLt(PatternRadius(call), OuterRadius(call))

\* C7 as stated: in every version and both backends a call with target
\* coverage 0 makes no ink-drawing call at all
C7_ZeroCoverageDrawsNothing ==
  (InCall /\ call.coverage = RZero) => InkMarks = <<>>

\* the try5.py calls with degenerate family parameters
Degenerate(a) ==
  /\ a.ver = "try5"
  /\ RLt(RZero, a.coverage)
  /\ \/ /\ a.pattern_type = "Diffuse"
        /\ (a.kw.rect_length_mm = RZero \/ a.kw.rect_width_mm = RZero)
     \/ /\ a.pattern_type = "Interstitial"
        /\ \/ a.kw.rect_length_mm = RZero /\ a.kw.spacing_along_mm = RZero
           \/ a.kw.rect_width_mm = RZero /\ a.kw.spacing_across_mm = RZero

\* C8 as stated: a try5.py call with positive coverage and a zero derived
\* area or period never ends in an exception, in either backend
C8_DegenerateNeverRaises ==
  (InCall /\ Degenerate(call)) => outcome \in {"running", "returned"}

\* C9 as stated, by the loop's progress measure: whenever the stripe loop
\* of pattern-creator.py is about to run another round (x < x0 +
\* total_width) for a coverage in (0, 1], the round moves x forward, so the
\* distance to the loop's limit shrinks and the call runs to completion
C9_StripeLoopAdvances ==
  (At({"while"}) /\ RLt(RZero, call.coverage)
     /\ RLt(Head(todo).arg.x, Head(todo).arg.limit))
    => RLt(RZero, Head(todo).arg.step)

\* C10 as stated: in try5.py, in both backends, the length of a Diffuse
\* rectangle and the offset of the Compact scar, divided by the outer
\* diameter in the backend's own unit, equal rect_length_mm /
\* circle_diameter_mm and offset_x_mm / circle_diameter_mm
C10_SameRelativeExtent ==
  (InCall /\ call.ver = "try5") =>
    \A i \in 1 .. Len(InkMarks) :
      /\ call.pattern_type = "Diffuse" =>
           RDiv(InkMarks[i].shape.w, OuterDiameter(call))
             = RDiv(call.kw.rect_length_mm, call.circle_diameter_mm)
      /\ (call.pattern_type = "Compact" /\ ~call.kw.split_scar) =>
           RDiv(RSub(InkMarks[i].shape.cx, Centre(call)), OuterDiameter(call))
             = RDiv(call.kw.offset_x_mm, call.circle_diameter_mm)

\* max(0, min(0.9, b)) written out by cases
BorderClamped(b) ==
  IF RLt(b, RZero) THEN RZero ELSE IF RLt(<<9, 10>>, b) THEN <<9, 10>> ELSE b

\* the squares of the inner radii the call has put to use so far: the
\* radius of the second clipPath in force (vector), of the disc on the
\* mask image (raster)
InnerRadiiSq ==
  IF IsVector(call)
  THEN {RSq(gs.clip[i].r) : i \in 2 .. Len(gs.clip)}
  ELSE {MarksOn("mask")[i].shape.r2 : i \in 1 .. Len(MarksOn("mask"))}

C12_InnerCoverage ==
  (InCall /\ call.ver = "try5") =>
    LET ratio == RSq(RSub(ROne, BorderClamped(call.white_border_fraction)))
        ic == FamilyCoverage(call)
    IN /\ ic = RMin(<<99, 100>>, RDiv(call.coverage, ratio))
       /\ RLe(ic, <<99, 100>>)
       /\ RLt(RDiv(call.coverage, ratio), <<99, 100>>) =>
            RSub(RMul(ic, ratio), call.coverage) = RZero
       /\ (RLe(RZero, call.white_border_fraction)
             /\ RLe(call.white_border_fraction, <<2, 5>>)) =>
            inner_coverage_fraction(call.coverage, call.white_border_fraction) = ic
       /\ (PlainCompact(call) /\ InkMarks # <<>>) =>
            InkMarks[1].shape.r2 = RMul(RSq(PatternRadius(call)), ic)

\* a returned try5.py call with a border on the slider whose clamp does not
\* bind, and one whose clamp binds, are told apart by the coverage handed on
C12_Witness ==
  /\ outcome = "returned" /\ PlainCompact(call) /\ InkMarks # <<>>
  /\ call.white_border_fraction = <<7, 20>> /\ call.coverage = <<3, 10>>
  /\ RLt(FamilyCoverage(call), <<99, 100>>)
  /\ RLt(call.coverage, FamilyCoverage(call))

\* the split Compact calls of try5.py with irregularity 0: two discs
SplitCompact(a) ==
  /\ a.ver = "try5" /\ a.pattern_type = "Compact"
  /\ a.kw.split_scar /\ a.kw.irregularity = RZero

\* squared distance between the centres of two marks
DistSq(m1, m2) ==
  RAdd(RSq(RSub(m1.shape.cx, m2.shape.cx)), RSq(RSub(m1.shape.cy, m2.shape.cy)))

\* C13 as stated: for irregularity 0 and whatever the two lobe offsets, the
\* area of the union of the two lobes of a split Compact scar equals the
\* area of the unsplit scar of the same coverage, pi * innerRadius ** 2 *
\* innerCoverage: the two lobe areas add up to it and the lobes, of equal
\* radius r, do not overlap (their centres are at least 2 r apart)
C13_SplitPreservesArea ==
  (outcome = "returned" /\ SplitCompact(call) /\ Len(InkMarks) = 2) =>
    /\ RAdd(InkMarks[1].shape.r2, InkMarks[2].shape.r2)
         = RMul(RSq(PatternRadius(call)), FamilyCoverage(call))
    /\ RLe(RMul(RInt(4), InkMarks[1].shape.r2), DistSq(InkMarks[1], InkMarks[2]))

\* C14: a try5.py Compact call with irregularity 0 paints discs only, each
\* of the solved radius innerRadius * sqrt(innerCoverage / (2 if split else
\* 1)) and without any vertex list or rotation; a returned call of positive
\* coverage has painted exactly one (split off) or exactly two (split on),
\* one of coverage 0 none; and the random stream is where it was when the
\* call began, in both backends
C14_RegularCompactDiscs ==
  (InCall /\ call.ver = "try5" /\ call.pattern_type = "Compact"
     /\ call.kw.irregularity = RZero) =>
    /\ rng = 0
    /\ \A i \in 1 .. Len(InkMarks) :
         /\ InkMarks[i].shape.kind = "circle"
         /\ DOMAIN InkMarks[i].shape \cap {"n", "rotation_deg"} = {}
         /\ InkMarks[i].shape.r2 =
              RMul(RSq(PatternRadius(call)),
                   RDiv(FamilyCoverage(call),
                        IF call.kw.split_scar THEN RInt(2) ELSE ROne))
    /\ outcome = "returned" =>
         Len(InkMarks) = IF call.coverage = RZero THEN 0
                         ELSE IF call.kw.split_scar THEN 2 ELSE 1

\* a returned split call with irregularity 0 and a turned left lobe
C14_Witness ==
  /\ outcome = "returned" /\ SplitCompact(call)
  /\ call.kw.split_rotation_left = 90
  /\ Len(InkMarks) = 2 /\ InkMarks[1].shape.kind = "circle"

\* the rectangle-mesh calls of version v
MeshCall(vs) ==
  InCall /\ call.ver \in vs /\ call.pattern_type = "Interstitial"

\* centre of an ink rectangle of the mesh relative to the centre of the
\* drawing, in the grid's own axes: the vector backend draws in them (the
\* canvas is turned), the raster backend turns every centre by angle_deg,
\* which is undone here
GridX(m) ==
  IF m.layer = "page"
  THEN RSub(RAdd(m.shape.x, RDiv(m.shape.w, RInt(2))), Centre(call))
  ELSE RAdd(RMul(RSub(m.shape.cx, Centre(call)), Cos(call.kw.angle_deg)),
            RMul(RSub(m.shape.cy, Centre(call)), Sin(call.kw.angle_deg)))
GridY(m) ==
  IF m.layer = "page"
  THEN RSub(RAdd(m.shape.y, RDiv(m.shape.h, RInt(2))), Centre(call))
  ELSE RSub(RMul(RSub(m.shape.cy, Centre(call)), Cos(call.kw.angle_deg)),
            RMul(RSub(m.shape.cx, Centre(call)), Sin(call.kw.angle_deg)))

\* the periods of the grid a rectangle was drawn in: its own length and
\* width plus the spacings
PeriodAlong(m) == RAdd(m.shape.w, Floor1(call, ToUnits(call, call.kw.spacing_along_mm)))
PeriodAcross(m) == RAdd(m.shape.h, Floor1(call, ToUnits(call, call.kw.spacing_across_mm)))

IsWhole(q) == q[2] = 1

\* how many rows, and how many periods along, rectangle m1 is from m2
RowsApart(m1, m2) == RDiv(RSub(GridY(m1), GridY(m2)), PeriodAcross(m1))
PeriodsApart(m1, m2) == RDiv(RSub(GridX(m1), GridX(m2)), PeriodAlong(m1))

\* rectangles m1 and m2 are an odd number of rows apart
OddRowsApart(m1, m2) == IsWhole(RowsApart(m1, m2)) /\ RowsApart(m1, m2)[1] % 2 = 1

\* rectangles m1 and m2 are shifted against each other by half a period
\* along, modulo the period
HalfPeriodApart(m1, m2) == IsWhole(RSub(PeriodsApart(m1, m2), <<1, 2>>))

\* the rectangle of the mesh drawn last
LastInk == InkMarks[Len(InkMarks)]

\* C15: in both backends of try3.py and try5.py, with indentation 0 any two
\* rectangles of the mesh are a whole number of periods apart along the
\* rows, whatever their rows (the rows are column-aligned); with
\* indentation 50 that holds for rows an even number apart, and rectangles
\* an odd number of rows apart are shifted by exactly half of period_along.
\* Stated of every rectangle against the one drawn last, which is every
\* pair as the call proceeds
C15_IndentationZeroAndHalf ==
  (MeshCall({"try3", "try5"}) /\ call.kw.indentation \in {0, 50}) =>
    \A i \in 1 .. Len(InkMarks) :
      /\ IsWhole(RowsApart(InkMarks[i], LastInk))
      /\ IF call.kw.indentation = 50 /\ OddRowsApart(InkMarks[i], LastInk)
         THEN HalfPeriodApart(InkMarks[i], LastInk)
         ELSE IsWhole(PeriodsApart(InkMarks[i], LastInk))

\* a returned mesh call with indentation 50 that drew rectangles in
\* neighbouring rows, half a period apart
C15_Witness ==
  /\ MeshCall({"try5"}) /\ outcome = "returned" /\ call.kw.indentation = 50
  /\ \E i, j \in 1 .. Len(InkMarks) :
       /\ RowsApart(InkMarks[i], InkMarks[j]) = ROne
       /\ HalfPeriodApart(InkMarks[i], InkMarks[j])

\* C16 as stated: with indentation 100, rectangles an odd number of rows
\* apart are shifted against each other by half of period_along, modulo
\* the period
C16_IndentationFullIsHalfStagger ==
  (MeshCall({"try2", "try3", "try5"}) /\ call.kw.indentation = 100) =>
    \A i, j \in 1 .. Len(InkMarks) :
      OddRowsApart(InkMarks[i], InkMarks[j]) =>
        HalfPeriodApart(InkMarks[i], InkMarks[j])

\* C16 as the code has it: indentation is a percentage of the whole period,
\* so with indentation 100 the odd rows are shifted by one full period_along
\* and every two rectangles of the mesh, whatever their rows, are a whole
\* number of periods apart along the rows (x modulo period_along is the
\* same in odd and even rows).  Stated of every rectangle against the one
\* drawn last
C16_IndentationFullIsAligned ==
  (MeshCall({"try2", "try3", "try5"}) /\ call.kw.indentation = 100) =>
    \A i \in 1 .. Len(InkMarks) :
      /\ IsWhole(RowsApart(InkMarks[i], LastInk))
      /\ IsWhole(PeriodsApart(InkMarks[i], LastInk))

\* a returned mesh call with indentation 100 that drew rectangles in
\* neighbouring rows
C16_Witness ==
  /\ MeshCall({"try5"}) /\ outcome = "returned" /\ call.kw.indentation = 100
  /\ \E i, j \in 1 .. Len(InkMarks) :
       /\ RowsApart(InkMarks[i], InkMarks[j]) = ROne
       /\ IsWhole(PeriodsApart(InkMarks[i], InkMarks[j]))

\* C17: in every version of the vector generator the first thing painted
\* is the page in black, the second the outer disc in white, and whatever
\* is painted after them is black ink: nothing repaints the page or the
\* outer disc
C17_BlackPageWhiteDiscBlackInk ==
  (InCall /\ call.backend = "vector") =>
    \A i \in 1 .. Len(marks) :
      /\ i = 1 => (marks[i].role = "background" /\ marks[i].colour = "black")
      /\ i = 2 => (marks[i].role = "tissue" /\ marks[i].colour = "white")
      /\ i > 2 => (marks[i].role = "ink" /\ marks[i].colour = "black")

\* the island blobs of a Patchy call of try3.py or try5.py
IslandMarks ==
  IF InCall /\ call.pattern_type = "Patchy" /\ call.ver \in {"try3", "try5"}
  THEN InkMarks ELSE <<>>

\* the draw an island's radial position was computed from, the position
\* itself, and the position density 1 gives for the same draw
IslandU(m) == m.shape.cx[3]
IslandR(m) == m.shape.cx[4]
IslandRAtDensityOne(m) == RMul(PatternRadius(call), IslandU(m))

\* C18: for a draw U in (0, 1) the radial position innerRadius * U^(1/density)
\* of an island centre is closer to the centre than the one density 1 gives
\* for the same U when density > 1, and closer to the rim when density < 1
C18_DensityBias ==
  \A i \in 1 .. Len(IslandMarks) :
    LET m == IslandMarks[i]
    IN (RLt(RZero, IslandU(m)) /\ RLt(IslandU(m), ROne)) =>
         /\ RLt(ROne, call.kw.density) => RLt(IslandR(m), IslandRAtDensityOne(m))
         /\ RLt(call.kw.density, ROne) => RLt(IslandRAtDensityOne(m), IslandR(m))

\* the nominal coverage of the mesh of the call: rect_length * rect_width
\* over the unit cell, in the backend's units
NominalCoverage ==
  actual_coverage(ToUnits(call, call.kw.rect_length_mm),
                  ToUnits(call, call.kw.rect_width_mm),
                  Floor1(call, ToUnits(call, call.kw.spacing_along_mm)),
                  Floor1(call, ToUnits(call, call.kw.spacing_across_mm)))

NominalDegenerate ==
  ~(RLt(RZero, NominalCoverage) /\ RLt(NominalCoverage, <<99, 100>>))

\* the coverage of the grid a rectangle was drawn in, by the periodic-grid
\* equation: its area over the area of its unit cell
DrawnCoverage(m) ==
  RDiv(RMul(m.shape.w, m.shape.h), RMul(PeriodAlong(m), PeriodAcross(m)))

\* C19: when the nominal coverage of the mesh is not degenerate, the
\* rectangles drawn, scaled by k with the spacings kept, make a grid whose
\* coverage (k*l * k*w) / ((k*l + sa) * (k*w + sb)) equals the target
\* coverage handed to the generator
C19_ScaledMeshHitsTarget ==
  (MeshCall({"try2", "try3", "try5"}) /\ ~NominalDegenerate) =>
    \A i \in 1 .. Len(InkMarks) :
      DrawnCoverage(InkMarks[i]) = FamilyCoverage(call)

\* the nominal length and width of the call's rectangles, in the backend's
\* units
NominalLength == ToUnits(call, call.kw.rect_length_mm)
NominalWidth == ToUnits(call, call.kw.rect_width_mm)

\* C20: when the nominal coverage of the mesh is <= 0 or >= 0.99 (the case
\* of a unit cell without area included) every rectangle drawn has exactly
\* the nominal length and width; otherwise the length and the width are
\* the nominal ones times one and the same factor, the square root of
\* target coverage over nominal coverage
C20_DegenerateMeshUnscaled ==
  MeshCall({"try2", "try3", "try5"}) =>
    \A i \in 1 .. Len(InkMarks) :
      LET m == InkMarks[i]
      IN IF NominalDegenerate
         THEN m.shape.w = NominalLength /\ m.shape.h = NominalWidth
         ELSE /\ RDiv(m.shape.w, NominalLength) = RDiv(m.shape.h, NominalWidth)
              /\ RSq(RDiv(m.shape.w, NominalLength))
                   = RDiv(FamilyCoverage(call), NominalCoverage)

\* a returned call on a mesh of nominal coverage >= 0.99 that drew
\* rectangles of the nominal size although the target coverage is lower
C20_Witness ==
  /\ MeshCall({"try5"}) /\ outcome = "returned"
  /\ RLe(<<99, 100>>, NominalCoverage)
  /\ RLt(FamilyCoverage(call), NominalCoverage)
  /\ \E i \in 1 .. Len(InkMarks) :
       /\ RLt(RZero, InkMarks[i].shape.w)
       /\ InkMarks[i].shape.w = NominalLength /\ InkMarks[i].shape.h = NominalWidth

\* the stripe calls of try1.py
StripeCall == InCall /\ call.ver = "try1" /\ call.pattern_type = "Interstitial"

\* the gap between two stripes of the call, and the share of one period
\* that stripe m inks
StripeGap == Floor1(call, ToUnits(call, call.kw.stripe_width_mm))
InkedShare(m) == RDiv(m.shape.w, RAdd(m.shape.w, StripeGap))

\* the width the inversion gives before the raster generator floors it
SolvedWidth ==
  RDiv(RMul(StripeGap, FamilyCoverage(call)), RSub(ROne, FamilyCoverage(call)))

DiffuseCall(vs) == InCall /\ call.ver \in vs /\ call.pattern_type = "Diffuse"

\* the area of one primitive of the Diffuse call: rect_length * rect_width
\* in try5.py, pi * spot_radius ** 2 in try1.py, the raster spot radius
\* floored at one pixel
DiffuseUnit ==
  IF call.ver = "try1"
  THEN LET half == RDiv(ToUnits(call, call.kw.spot_size_mm), RInt(2))
       IN RMul(Pi, RSq(IF IsVector(call) THEN half ELSE RMax(ROne, half)))
  ELSE RMul(ToUnits(call, call.kw.rect_length_mm), ToUnits(call, call.kw.rect_width_mm))

\* the area the primitives are to cover: innerCoverage * pi * innerRadius^2
DiffuseTarget ==
  RMul(RMul(FamilyCoverage(call), Pi), RSq(PatternRadius(call)))

\* the count is defined: one primitive has an area, and in the vector
\* generator of try1.py the spacing it also divides by is not zero
DiffuseCountDefined ==
  /\ RLt(RZero, DiffuseUnit)
  /\ (call.ver = "try1" /\ IsVector(call)) => call.kw.spacing_mm # RZero

Twin == [call EXCEPT !.backend = IF IsVector(call) THEN "raster" ELSE "vector"]

\* the number of rectangles a Diffuse call a places
RectCount(a) ==
  Len(SelectSeq(Program(a), LAMBDA ins : ins.role = "ink" /\ ins.op \in {"rect", "polygon"}))

\* C23: a Diffuse call of try5.py that has returned has placed as many
\* rectangles as the same call (coverage, diameter, border, rectangle
\* size) places in the other backend
C23_DiffuseCountSameInBothBackends ==
  (DiffuseCall({"try5"}) /\ DiffuseCountDefined /\ outcome = "returned") =>
    Len(InkMarks) = RectCount(Twin)

\* the shapes of the islands the call would draw with density 1, all other
\* arguments the same
IslandsAtDensityOne ==
  SelectSeq(Program([call EXCEPT !.kw.density = ROne]),
            LAMBDA ins : ins.role = "ink" /\ ins.op \in {"drawPath", "polygon"})

\* the square of the size factor of island m: its radius over the solver's
\* base radius sqrt(innerCoverage * innerRadius^2 / numIslands), squared
SizeFactorSq(m) ==
  RDiv(m.shape.r2,
       RDiv(RMul(FamilyCoverage(call), RSq(PatternRadius(call))),
            RInt(call.kw.num_islands)))

\* C24: the radius of every island of a Patchy call of try3.py or try5.py
\* is the base radius times a factor of the fixed interval [0.6, 1.4], and
\* it is the radius the same call has with density 1: the nominal island
\* areas do not depend on density
C24_IslandSizeIgnoresDensity ==
  \A i \in 1 .. Len(IslandMarks) :
    /\ RLe(<<9, 25>>, SizeFactorSq(IslandMarks[i]))
    /\ RLe(SizeFactorSq(IslandMarks[i]), <<49, 25>>)
    /\ IslandMarks[i].shape.r2 = IslandsAtDensityOne[i].arg.r2

\* the length, the width, the periods and the numbers of cells of the grid
\* of the mesh call, as the generator computes them
DrawnLength ==
  RMul(NominalLength, RSqrt(MeshScaleSq(call, PatternRadius(call), FamilyCoverage(call))))
DrawnWidth ==
  RMul(NominalWidth, RSqrt(MeshScaleSq(call, PatternRadius(call), FamilyCoverage(call))))
GridPeriodAlong == RAdd(DrawnLength, Floor1(call, ToUnits(call, call.kw.spacing_along_mm)))
GridPeriodAcross == RAdd(DrawnWidth, Floor1(call, ToUnits(call, call.kw.spacing_across_mm)))
GridNumAlong == RCeil(RDiv(RMul(PatternRadius(call), RInt(6)), GridPeriodAlong)) + 4
GridNumAcross == RCeil(RDiv(RMul(PatternRadius(call), RInt(6)), GridPeriodAcross)) + 4

\* the rectangle of the grid centred at (x, y) from the centre of the
\* drawing has a point strictly inside the inner circle: its point nearest
\* to the centre is (decided on the quotients by the radius)
OverlapsInner(x, y) ==
  LET dx == RMax(RZero, RSub(RAbs(x), RDiv(DrawnLength, RInt(2))))
      dy == RMax(RZero, RSub(RAbs(y), RDiv(DrawnWidth, RInt(2))))
  IN RLt(RAdd(RSq(RDiv(dx, PatternRadius(call))), RSq(RDiv(dy, PatternRadius(call)))),
         ROne)

\* a rectangle was drawn with its centre at (x, y)
DrawnAt(x, y) ==
  \E k \in 1 .. Len(InkMarks) : GridX(InkMarks[k]) = x /\ GridY(InkMarks[k]) = y

\* C25: when a mesh call has returned, every cell of its grid whose
\* rectangle overlaps the inner circle, even partly, has been drawn: the
\* distance test skips only rectangles that lie outside the inner circle
C25_CullingKeepsVisible ==
  (/\ MeshCall({"try2", "try3", "try5"}) /\ outcome = "returned"
   /\ RLt(RZero, FamilyCoverage(call))
   /\ RLt(RZero, DrawnLength) /\ RLt(RZero, DrawnWidth)) =>
    \A i \in 0 .. (GridNumAlong - 1), j \in 0 .. (GridNumAcross - 1) :
      OverlapsInner(CellX(i, j, GridNumAlong, GridPeriodAlong, call.kw.indentation),
                    CellY(j, GridNumAcross, GridPeriodAcross))
        => DrawnAt(CellX(i, j, GridNumAlong, GridPeriodAlong, call.kw.indentation),
                   CellY(j, GridNumAcross, GridPeriodAcross))

C27_Try2VectorMeshCompletes ==
  (MeshCall({"try2"}) /\ IsVector(call)) => outcome \in {"running", "returned"}

\* the vector calls of try1.py and try5.py
StackCall == InCall /\ IsVector(call) /\ call.ver \in {"try1", "try5"}

\* the statements left are the tail of generate_pattern: the restoreState
\* that ends the clip, showPage and save
AtEndClip ==
  Len(todo) = 3 /\ todo[1].op = "restoreState" /\ todo[2].op = "showPage"

LobesAtGap(d) ==
  LET ops == SelectSeq(Program([call EXCEPT !.kw.split_distance_mm = d]),
                       LAMBDA ins : ins.role = "ink"
                                      /\ ins.op \in {"circle", "ellipse", "drawPath", "polygon"})
  IN [n \in 1 .. Len(ops) |-> ops[n].arg]

ZoomOk ==
  /\ zoom_index \in 0 .. (Len(zoom_levels) - 1)
  /\ zoom_level = zoom_levels[zoom_index + 1]

\* C30: in the GUI of try1.py, after any sequence of zoom_in, zoom_out,
\* zoom_reset and mouse-wheel events, 0 <= zoom_index <= len(zoom_levels) - 1
\* and zoom_level = zoom_levels[zoom_index]; zoom_in at the highest level
\* and zoom_out at the lowest leave the state unchanged, and a mouse-wheel
\* event changes nothing while there is no preview image
C30_ZoomStateInvariant ==
  /\ [](ver = "try1" => ZoomOk)
  /\ [][(zoom_in /\ zoom_index = Len(zoom_levels) - 1)
          => UNCHANGED <<zoom_index, zoom_level>>]_vars
  /\ [][(zoom_out /\ zoom_index = 0) => UNCHANGED <<zoom_index, zoom_level>>]_vars
  /\ [][(on_mouse_wheel /\ preview = <<>>) => UNCHANGED <<zoom_index, zoom_level>>]_vars

\* the GUI of try1.py zoomed in to the highest level, a preview on display
C30_Witness ==
  /\ ver = "try1" /\ preview # <<>>
  /\ zoom_index = Len(zoom_levels) - 1 /\ zoom_level = <<4, 1>>

====
